---- MODULE Spec2Model ----
(***************************************************************************)
(* Datax: ingestion of social-network metrics.                             *)
(*                                                                         *)
(* Part I  - the daily delta/upsert engine of fb_sql.py / graph_sql.py     *)
(*           (table metricas_publicaciones_diarias).                       *)
(* Part II - the Graph API client of fb_api.py / graph_api.py              *)
(*           (fb_get with backoff, paginate following paging.next).        *)
(* Part III - ingestion runs: ingest_posts of fb_ingest.py, one            *)
(*           transaction per run, two runs side by side.                   *)
(* Part IV - the weekly reduction (latest_by_iso_week) and the weekly      *)
(*           tables estadisticas_pagina_semanal and                        *)
(*           segmentacion_seguidores_semanal.                              *)
(***************************************************************************)
EXTENDS Integers, Sequences, FiniteSets, TLC

VARIABLES
  modulo,     \* which persistence module is deployed: "fb_sql" or "graph_sql"
  store,      \* table metricas_publicaciones_diarias: a set of rows
  last,       \* the last statement issued by upsert_metricas_publicacion_diaria
  nops,       \* number of upsert calls made so far
  env,        \* os.environ: ACCESS_TOKEN, ACCESS_TOKEN_FB, ACCESS_TOKEN_IG
  explicit,   \* the access_token argument of the call
  upstream,   \* the collection served upstream: a sequence of pages of items
  caller,     \* "fb_get" (direct call) or "paginate" (generator)
  fb_pc,      \* position of fb_get
  attempt,    \* loop variable of fb_get
  requests,   \* HTTP requests issued so far, with the status each received
  sleeps,     \* arguments of the time.sleep calls made so far
  result,     \* value returned by fb_get (Some(body)) or None
  pag_pc,     \* position of the paginate generator
  data,       \* paginate's local `data`: the page being consumed
  pos,        \* index of the next item of `data` to yield
  yielded,    \* items handed to the consumer so far
  serial,     \* TRUE when the second ingestion run starts after the first ended
  runs,       \* per ingestion run: position, records, pending transaction
  commits,    \* the runs that committed, in commit order
  points,     \* the input of the last weekly reduction
  byweek,     \* the result of the last weekly reduction
  semanal,    \* table estadisticas_pagina_semanal: a set of rows
  segmentos,  \* table segmentacion_seguidores_semanal: a set of rows
  wlast,      \* the last call made on the weekly tables
  orch,       \* an ingestion run of one platform's main(): position and log
  cli         \* a call of li_get or ttk_get: position, requests, sleeps

sqlvars == <<modulo, store, last, nops>>
apivars == <<env, explicit, upstream, caller, fb_pc, attempt, requests, sleeps,
             result, pag_pc, data, pos, yielded>>
runvars == <<serial, runs, commits>>
wkvars == <<points, byweek, semanal, segmentos, wlast>>
orchvars == <<orch, cli>>
dbvars == <<sqlvars, runvars, wkvars, orchvars>>
vars == <<modulo, store, last, nops, env, explicit, upstream, caller, fb_pc,
          attempt, requests, sleeps, result, pag_pc, data, pos, yielded,
          serial, runs, commits, points, byweek, semanal, segmentos, wlast,
          orch, cli>>

\* Python's None and a present value
None == <<>>
Some(v) == <<v>>

(***************************************************************************)
(* Bounds                                                                  *)
(***************************************************************************)
MaxOps == 3
MaxDate == 3
MaxPages == 3
MaxPageSize == 2
MaxPoints == 3
MaxWeeklyOps == 2
MaxPayload == 2
MaxElems == 3

(***************************************************************************)
(* Part I: the daily upsert                                                *)
(***************************************************************************)
Modulos == {"fb_sql", "graph_sql"}

\* (plataforma, pagina_id, publicacion_id) triples used as inputs
Entities ==
  { <<"facebook", "pg1", "e1">>,
    <<"facebook", "pg1", "e2">> }

Dates == 1..MaxDate

\* SQL NULL: what psycopg2 sends for a Python None parameter
NULL == "<NULL>"

\* col = %s in a WHERE clause or a unique index: never true when a side is NULL
SqlEq(a, b) == a # NULL /\ b # NULL /\ a = b

KeyCols == {"plataforma", "pagina_id", "publicacion_id", "fecha_descarga"}

\* variant: the default argument is ignored, a missing key reads as 1
Get_one(m, key, default) == IF key \in DOMAIN m THEN m[key] ELSE 1

\* m.get(key, default)
Get(m, key, default) == IF key \in DOMAIN m THEN m[key] ELSE default

\* metric dicts handed to the upsert by the orchestrators
mA ==
  [ visualizaciones |-> 100, alcance |-> 80, impresiones |-> 120,
    tiempo_promedio |-> None,
    reacciones |-> 7, me_gusta |-> 4, me_encanta |-> 3, me_divierte |-> 0,
    me_asombra |-> 0, me_entristece |-> 0, me_enoja |-> 0,
    comentarios |-> 5, compartidos |-> 2, guardados |-> 1,
    clics_enlace |-> 6, ctr |-> Some(5) ]

mB ==
  [ visualizaciones |-> 140, alcance |-> 95, impresiones |-> 150,
    tiempo_promedio |-> Some(12),
    reacciones |-> 9, me_gusta |-> 5, me_encanta |-> 3, me_divierte |-> 1,
    me_asombra |-> 0, me_entristece |-> 0, me_enoja |-> 0,
    comentarios |-> 5, compartidos |-> 4, guardados |-> 3,
    clics_enlace |-> 9, ctr |-> Some(6) ]

mC == [ visualizaciones |-> 60, comentarios |-> 8 ]

MetricInputs == {mA, mB, mC}

\* variant: comentarios and compartidos change places in the SELECT list
SelectCols_swapped(mod) ==
  IF mod = "fb_sql"
  THEN << "visualizaciones", "alcance", "impresiones", "reacciones",
          "compartidos", "comentarios", "guardados" >>
  ELSE << "visualizaciones", "alcance", "impresiones",
          "compartidos", "comentarios", "guardados" >>

\* columns read by the SELECT of _ultimo_registro_prev, in order
SelectCols(mod) ==
  IF mod = "fb_sql"
  THEN << "visualizaciones", "alcance", "impresiones", "reacciones",
          "comentarios", "compartidos", "guardados" >>
  ELSE << "visualizaciones", "alcance", "impresiones",
          "comentarios", "compartidos", "guardados" >>

\* variant: ORDER BY fecha_descarga ASC, the earliest row instead of the latest
ultimo_registro_prev_asc(mod, st, plataforma, pagina_id, publicacion_id, fecha_descarga) ==
  LET matches == { r \in st : /\ SqlEq(r.plataforma, plataforma)
                              /\ SqlEq(r.pagina_id, pagina_id)
                              /\ SqlEq(r.publicacion_id, publicacion_id)
                              /\ r.fecha_descarga < fecha_descarga }
      cols == SelectCols(mod)
  IN IF matches = {}
     THEN None
     ELSE LET top == CHOOSE r \in matches :
                       \A q \in matches : q.fecha_descarga >= r.fecha_descarga
          IN Some([i \in 1..Len(cols) |-> top[cols[i]]])

\* variant: fecha_descarga <= %s, the row of the same day counts as previous
ultimo_registro_prev_le(mod, st, plataforma, pagina_id, publicacion_id, fecha_descarga) ==
  LET matches == { r \in st : /\ SqlEq(r.plataforma, plataforma)
                              /\ SqlEq(r.pagina_id, pagina_id)
                              /\ SqlEq(r.publicacion_id, publicacion_id)
                              /\ r.fecha_descarga <= fecha_descarga }
      cols == SelectCols(mod)
  IN IF matches = {}
     THEN None
     ELSE LET top == CHOOSE r \in matches :
                       \A q \in matches : q.fecha_descarga <= r.fecha_descarga
          IN Some([i \in 1..Len(cols) |-> top[cols[i]]])

\* variant: the WHERE clause leaves pagina_id out
ultimo_registro_prev_anypage(mod, st, plataforma, pagina_id, publicacion_id, fecha_descarga) ==
  LET matches == { r \in st : /\ SqlEq(r.plataforma, plataforma)
                              /\ SqlEq(r.publicacion_id, publicacion_id)
                              /\ r.fecha_descarga < fecha_descarga }
      cols == SelectCols(mod)
  IN IF matches = {}
     THEN None
     ELSE LET top == CHOOSE r \in matches :
                       \A q \in matches : q.fecha_descarga <= r.fecha_descarga
          IN Some([i \in 1..Len(cols) |-> top[cols[i]]])

\* SELECT ... WHERE plataforma=%s AND pagina_id=%s AND publicacion_id=%s
\*   AND fecha_descarga < %s ORDER BY fecha_descarga DESC LIMIT 1; fetchone()
ultimo_registro_prev(mod, st, plataforma, pagina_id, publicacion_id, fecha_descarga) ==
  LET matches == { r \in st : /\ SqlEq(r.plataforma, plataforma)
                              /\ SqlEq(r.pagina_id, pagina_id)
                              /\ SqlEq(r.publicacion_id, publicacion_id)
                              /\ r.fecha_descarga < fecha_descarga }
      cols == SelectCols(mod)
  IN IF matches = {}
     THEN None
     ELSE LET top == CHOOSE r \in matches :
                       \A q \in matches : q.fecha_descarga <= r.fecha_descarga
          IN Some([i \in 1..Len(cols) |-> top[cols[i]]])

\* d = lambda key, idx: (m.get(key, 0) - (prev[idx] if prev else 0))
d(m, prev, key, idx) ==
  Get(m, key, 0) - (IF prev # None THEN prev[1][idx + 1] ELSE 0)

\* the `row` dict of fb_sql.py bound to the columns of its INSERT
row_fb_sql(plataforma, pagina_id, publicacion_id, fecha_descarga, m, prev) ==
  [ plataforma      |-> plataforma,
    pagina_id       |-> pagina_id,
    publicacion_id  |-> publicacion_id,
    fecha_descarga  |-> fecha_descarga,
    visualizaciones |-> Get(m, "visualizaciones", 0),
    alcance         |-> Get(m, "alcance", 0),
    impresiones     |-> Get(m, "impresiones", 0),
    tiempo_promedio_seg_numeric |-> Get(m, "tiempo_promedio", None),
    reacciones      |-> Get(m, "reacciones", 0),
    me_gusta        |-> Get(m, "me_gusta", 0),
    me_encanta      |-> Get(m, "me_encanta", 0),
    me_divierte     |-> Get(m, "me_divierte", 0),
    me_asombra      |-> Get(m, "me_asombra", 0),
    me_entristece   |-> Get(m, "me_entristece", 0),
    me_enoja        |-> Get(m, "me_enoja", 0),
    comentarios     |-> Get(m, "comentarios", 0),
    compartidos     |-> Get(m, "compartidos", 0),
    guardados       |-> Get(m, "guardados", 0),
    clics_enlace    |-> Get(m, "clics_enlace", 0),
    ctr             |-> Get(m, "ctr", None),
    delta_visualizaciones |-> d(m, prev, "visualizaciones", 0),
    delta_alcance         |-> d(m, prev, "alcance", 1),
    delta_reacciones      |-> d(m, prev, "reacciones", 3),
    delta_comentarios     |-> d(m, prev, "comentarios", 4),
    delta_compartidos     |-> d(m, prev, "compartidos", 5),
    delta_guardados       |-> d(m, prev, "guardados", 6) ]

\* the `row` dict of graph_sql.py bound to the columns of its INSERT
row_graph_sql(plataforma, pagina_id, publicacion_id, fecha_descarga, m, prev) ==
  [ plataforma      |-> plataforma,
    pagina_id       |-> pagina_id,
    publicacion_id  |-> publicacion_id,
    fecha_descarga  |-> fecha_descarga,
    visualizaciones |-> Get(m, "visualizaciones", 0),
    alcance         |-> Get(m, "alcance", 0),
    impresiones     |-> Get(m, "impresiones", 0),
    tiempo_promedio_seg |-> Get(m, "tiempo_promedio", None),
    comentarios     |-> Get(m, "comentarios", 0),
    compartidos     |-> Get(m, "compartidos", 0),
    guardados       |-> Get(m, "guardados", 0),
    clics_enlace    |-> Get(m, "clics_enlace", 0),
    ctr             |-> Get(m, "ctr", None),
    delta_visualizaciones |-> d(m, prev, "visualizaciones", 0),
    delta_alcance         |-> d(m, prev, "alcance", 1),
    delta_comentarios     |-> d(m, prev, "comentarios", 3),
    delta_compartidos     |-> d(m, prev, "compartidos", 4),
    delta_guardados       |-> d(m, prev, "guardados", 5) ]

\* ON CONFLICT (plataforma, pagina_id, publicacion_id, fecha_descarga)
ConflictTarget == {"plataforma", "pagina_id", "publicacion_id", "fecha_descarga"}

\* variant: the DO UPDATE SET list forgets the delta columns
UpdateSetCols_nodelta(mod) ==
  IF mod = "fb_sql"
  THEN { "visualizaciones", "alcance", "impresiones",
         "tiempo_promedio_seg_numeric",
         "reacciones", "me_gusta", "me_encanta", "me_divierte", "me_asombra",
         "me_entristece", "me_enoja",
         "comentarios", "compartidos", "guardados", "clics_enlace", "ctr" }
  ELSE { "visualizaciones", "alcance", "impresiones", "tiempo_promedio_seg",
         "comentarios", "compartidos", "guardados", "clics_enlace", "ctr" }

\* columns assigned by DO UPDATE SET col = EXCLUDED.col
UpdateSetCols(mod) ==
  IF mod = "fb_sql"
  THEN { "visualizaciones", "alcance", "impresiones",
         "tiempo_promedio_seg_numeric",
         "reacciones", "me_gusta", "me_encanta", "me_divierte", "me_asombra",
         "me_entristece", "me_enoja",
         "comentarios", "compartidos", "guardados", "clics_enlace", "ctr",
         "delta_visualizaciones", "delta_alcance", "delta_reacciones",
         "delta_comentarios", "delta_compartidos", "delta_guardados" }
  ELSE { "visualizaciones", "alcance", "impresiones", "tiempo_promedio_seg",
         "comentarios", "compartidos", "guardados", "clics_enlace", "ctr",
         "delta_visualizaciones", "delta_alcance", "delta_comentarios",
         "delta_compartidos", "delta_guardados" }

\* variant: the conflict target leaves fecha_descarga out
Conflicting_anydate(st, row) ==
  { r \in st : \A k \in ConflictTarget \ {"fecha_descarga"} : SqlEq(r[k], row[k]) }

\* rows of st that collide with `row` on the conflict target
Conflicting(st, row) ==
  { r \in st : \A k \in ConflictTarget :
                 IF k = "fecha_descarga" THEN r[k] = row[k] ELSE SqlEq(r[k], row[k]) }

\* the key columns of `row` that are NULL
NullKeys(row) == { k \in ConflictTarget \ {"fecha_descarga"} : row[k] = NULL }

\* whether the table takes the INSERT: a row with a NULL key column is either
\* rejected by a NOT NULL constraint (psycopg2 raises) or stored; the schema
\* that decides is not part of the sources, so both are possible
InsertOutcomes(row) == IF NullKeys(row) = {} THEN {"ok"} ELSE {"ok", "db_error"}

\* variant: a plain INSERT without the ON CONFLICT clause on a table
\* without the unique key
exec_upsert_plain(mod, st, row) == st \cup {row}

\* cur.execute(INSERT ... ON CONFLICT (...) DO UPDATE SET ...)
exec_upsert(mod, st, row) ==
  LET hit == Conflicting(st, row)
  IN IF hit = {}
     THEN st \cup {row}
     ELSE (st \ hit) \cup
          { [c \in DOMAIN r |-> IF c \in UpdateSetCols(mod) THEN row[c] ELSE r[c]]
            : r \in hit }

\* no main() is running and no LinkedIn or TikTok client call is in progress
NoOrch == [pc |-> "idle"]

NoCli == [pc |-> "idle"]

OrchIdle ==
  /\ orch = NoOrch
  /\ cli = NoCli

\* state of the API client while only the persistence layer is exercised
FbIdle ==
  /\ env = [ACCESS_TOKEN |-> "", ACCESS_TOKEN_FB |-> "", ACCESS_TOKEN_IG |-> ""]
  /\ explicit = ""
  /\ upstream = <<>>
  /\ caller = "none"
  /\ fb_pc = "idle"
  /\ attempt = 0
  /\ requests = <<>>
  /\ sleeps = <<>>
  /\ result = None
  /\ pag_pc = "idle"
  /\ data = None
  /\ pos = 1
  /\ yielded = <<>>

ApiIdle ==
  /\ OrchIdle
  /\ FbIdle

NoCall ==
  [ op |-> "none", entity |-> <<"", "", "">>, fecha |-> 0, m |-> mC,
    hit |-> FALSE, rep |-> FALSE, stmts |-> <<>>, outcome |-> "none" ]

\* no ingestion run is in progress
RunIds == {"A", "B"}

RunIdleRec ==
  [pc |-> "ended", per_day |-> {}, recs |-> <<>>, i |-> 1, prev |-> None,
   m |-> mC, pend |-> {}]

RunIdle ==
  /\ serial = TRUE
  /\ runs = [r \in RunIds |-> RunIdleRec]
  /\ commits = <<>>

\* the weekly tables are empty and untouched
NoWeeklyCall == [op |-> "none"]

WkIdle ==
  /\ points = <<>>
  /\ byweek = <<>>
  /\ semanal = {}
  /\ segmentos = {}
  /\ wlast = NoWeeklyCall

InitSql ==
  /\ modulo \in Modulos
  /\ store = {}
  /\ last = NoCall
  /\ nops = 0
  /\ ApiIdle
  /\ RunIdle
  /\ WkIdle

\* upsert_metricas_publicacion_diaria(conn, plataforma, pagina_id,
\*                                    publicacion_id, fecha_descarga, m)
upsert_metricas_publicacion_diaria(e, fecha_descarga, m) ==
  /\ nops < MaxOps
  /\ LET prev == ultimo_registro_prev(modulo, store, e[1], e[2], e[3], fecha_descarga)
         row  == IF modulo = "fb_sql"
                 THEN row_fb_sql(e[1], e[2], e[3], fecha_descarga, m, prev)
                 ELSE row_graph_sql(e[1], e[2], e[3], fecha_descarga, m, prev)
     IN \E outcome \in InsertOutcomes(row) :
          /\ store' = IF outcome = "ok" THEN exec_upsert(modulo, store, row) ELSE store
          /\ last' = [ op |-> "upsert", entity |-> e, fecha |-> fecha_descarga,
                       m |-> m,
                       hit |-> Conflicting(store, row) # {},
                       rep |-> /\ last.op = "upsert"
                               /\ last.entity = e
                               /\ last.fecha = fecha_descarga
                               /\ last.m = m,
                       stmts |-> <<"SELECT", "INSERT">>,
                       outcome |-> outcome ]
  /\ nops' = nops + 1
  /\ UNCHANGED <<modulo>>
  /\ UNCHANGED <<apivars, orchvars, runvars, wkvars>>

NextSql ==
  \E e \in Entities, f \in Dates, m \in MetricInputs :
    upsert_metricas_publicacion_diaria(e, f, m)

SpecSql == InitSql /\ [][NextSql]_vars

\* calls whose pagina_id is None: tikttok_ingest.py passes
\* TTK_BUSINESS_ID = os.getenv("TTK_BUSINESS_ID") and never checks it
NullEntities == { <<"tiktok", NULL, "v1">> }

NextSqlNull ==
  \E e \in NullEntities \cup {<<"facebook", "pg1", "e1">>}, f \in Dates, m \in {mA, mC} :
    upsert_metricas_publicacion_diaria(e, f, m)

SpecSqlNull == InitSql /\ [][NextSqlNull]_vars


(***************************************************************************)
(* Properties of the daily upsert                                          *)
(***************************************************************************)
\* rows of st that belong to entity e
RowsOf(st, e) ==
  { r \in st : r.plataforma = e[1] /\ r.pagina_id = e[2] /\ r.publicacion_id = e[3] }

\* rows of st stored under the full key (e, f)
RowsAt(st, e, f) == { r \in RowsOf(st, e) : r.fecha_descarga = f }

\* rows of entity e in st dated strictly before f
Earlier(st, e, f) == { r \in RowsOf(st, e) : r.fecha_descarga < f }

\* value of `field` in the row of `rows` with the greatest date, 0 if none
LatestValue(rows, field) ==
  IF rows = {} THEN 0
  ELSE (CHOOSE r \in rows : \A q \in rows : q.fecha_descarga <= r.fecha_descarga)[field]

\* cumulative fields that have a delta column in row r
DeltaFields(r) == { c \in DOMAIN r : ("delta_" \o c) \in DOMAIN r }

\* C1: after upsert(platform, page, entity, date, m) the stored delta of every
\* cumulative field with a delta column equals m[field] minus the value of
\* that field in the stored row of the same entity with the greatest date
\* strictly earlier than `date`, and m[field] itself when no such row exists.
T_C1 ==
  [][ nops' = nops + 1 =>
        \A r \in RowsAt(store', last'.entity, last'.fecha) :
          \A fld \in DeltaFields(r) :
            r["delta_" \o fld] =
              Get(last'.m, fld, 0)
                - LatestValue(Earlier(store, last'.entity, last'.fecha), fld) ]_vars

\* C1 witness: an upsert found an earlier row of its entity and stored a
\* delta that differs from the raw value (views 100 then 140 gives 40).
W_C1 ==
  /\ last.op = "upsert"
  /\ last.m = mB
  /\ Earlier(store, last.entity, last.fecha) # {}
  /\ \E r \in RowsAt(store, last.entity, last.fecha) :
        r.visualizaciones = 140 /\ r.delta_visualizaciones = 40

\* C2: repeating an upsert with the identical input right after the first
\* call leaves the store (raw and delta columns) as the first call left it.
T_C2 ==
  [][ (nops' = nops + 1 /\ last'.rep) => store' = store ]_vars

\* C2 witness: the same input was upserted twice in a row for a row whose
\* delta was computed against an earlier row.
W_C2 ==
  /\ last.rep
  /\ Earlier(store, last.entity, last.fecha) # {}
  /\ \E r \in RowsAt(store, last.entity, last.fecha) :
        r.delta_visualizaciones # r.visualizaciones

\* C3: the store holds at most one daily row per full key
\* (platform, page_id, entity_id, date).
T_C3 ==
  \A r1 \in store, r2 \in store :
    (\A k \in KeyCols : r1[k] = r2[k]) => r1 = r2

\* C3 witness: an upsert hit a key that was already stored, with a
\* different metric record than the one stored before.
W_C3 ==
  /\ last.op = "upsert"
  /\ last.hit
  /\ ~last.rep
  /\ Cardinality(store) >= 2

\* the values an upsert of m under key (e, f) must leave in every column
FreshRow(st, r, e, f, m) ==
  [ c \in DOMAIN r |->
      IF c = "plataforma" THEN e[1]
      ELSE IF c = "pagina_id" THEN e[2]
      ELSE IF c = "publicacion_id" THEN e[3]
      ELSE IF c = "fecha_descarga" THEN f
      ELSE IF c \in {"tiempo_promedio_seg", "tiempo_promedio_seg_numeric"}
        THEN Get(m, "tiempo_promedio", None)
      ELSE IF c = "ctr" THEN Get(m, "ctr", None)
      ELSE IF c \in {"delta_visualizaciones", "delta_alcance", "delta_reacciones",
                     "delta_comentarios", "delta_compartidos", "delta_guardados"}
        THEN LET fld == CHOOSE x \in DeltaFields(r) : ("delta_" \o x) = c
             IN Get(m, fld, 0) - LatestValue(Earlier(st, e, f), fld)
      ELSE Get(m, c, 0) ]

\* C4: when an upsert hits an existing key, every non-key column of the
\* stored row, delta columns included, holds the value computed from the new
\* input; no column keeps its old value.
T_C4 ==
  [][ (nops' = nops + 1 /\ last'.hit) =>
        \A r \in RowsAt(store', last'.entity, last'.fecha) :
          r = FreshRow(store, r, last'.entity, last'.fecha, last'.m) ]_vars

\* C4 witness: a stored row was overwritten by an upsert carrying other
\* values, and both its raw and delta columns now show the new input.
W_C4 ==
  /\ last.op = "upsert"
  /\ last.hit
  /\ last.m = mC
  /\ \E r \in RowsAt(store, last.entity, last.fecha) :
        /\ r.visualizaciones = 60
        /\ r.alcance = 0
        /\ r.delta_alcance < 0

(***************************************************************************)
(* Part II: the Graph API client                                           *)
(***************************************************************************)
\* for attempt in range(5)
MaxAttempts == 5

\* status codes the upstream may answer with
Statuses == {200, 429, 500, 613}

\* variant: server errors are treated as rate limits too
IsRateLimit_500(status) == status \in {429, 500, 613}

\* r.status_code in (429, 613)
IsRateLimit(status) == status \in {429, 613}

\* variant: time.sleep(2 * attempt)
Backoff_linear(k) == 2 * k

\* time.sleep(2 ** attempt)
Backoff(k) == 2 ^ k

\* explicit or os.getenv("ACCESS_TOKEN") or os.getenv("ACCESS_TOKEN_FB")
\*   or os.getenv("ACCESS_TOKEN_IG"); "" stands for the falsy result that
\* makes _pick_token raise
pick_token_ig_first(expl, environ) ==
  IF expl # "" THEN expl
  ELSE IF environ.ACCESS_TOKEN # "" THEN environ.ACCESS_TOKEN
  ELSE IF environ.ACCESS_TOKEN_IG # "" THEN environ.ACCESS_TOKEN_IG
  ELSE environ.ACCESS_TOKEN_FB

pick_token(expl, environ) ==
  IF expl # "" THEN expl
  ELSE IF environ.ACCESS_TOKEN # "" THEN environ.ACCESS_TOKEN
  ELSE IF environ.ACCESS_TOKEN_FB # "" THEN environ.ACCESS_TOKEN_FB
  ELSE environ.ACCESS_TOKEN_IG

\* the collection {data: [...], paging: {next?}} split in pages of the given
\* sizes; items are numbered in server order
RECURSIVE SumTo(_, _)
SumTo(sizes, n) == IF n = 0 THEN 0 ELSE sizes[n] + SumTo(sizes, n - 1)

MkChain(sizes) ==
  [ i \in 1..Len(sizes) |->
      [ j \in 1..sizes[i] |-> SumTo(sizes, i - 1) + j ] ]

Chains ==
  { MkChain(sizes) :
      sizes \in UNION { [1..n -> 0..MaxPageSize] : n \in 1..MaxPages } }

\* parsed body of page i: "data" and, unless it is the last page, paging.next
Body(chain, i) ==
  [ data |-> Some(chain[i]), next |-> IF i < Len(chain) THEN i + 1 ELSE 0 ]

\* parsed body of an error response: {"error": {...}}, no data, no paging
ErrorBody == [ data |-> None, next |-> 0 ]

\* data.get("data", [])
PageItems(page) == IF page.data = None THEN <<>> ELSE page.data[1]

\* variant: an empty page ends the listing even when it has paging.next
next_url_stop_on_empty(page) ==
  IF page.data = None \/ page.data = Some(<<>>) THEN 0 ELSE page.next

\* variant: the cursor is advanced twice, one page is jumped over
next_url_skip(page) ==
  IF page.next # 0 /\ page.next < Len(upstream) THEN page.next + 1 ELSE page.next

\* (data.get("paging") or {}).get("next"); 0 stands for a missing next
next_url(page) == page.next

\* variant: the next page is fetched ahead, before the page is used up
page_exhausted_eager(page, p) == TRUE

\* the loop `for row in data.get("data", [])` has run out of items
page_exhausted(page, p) == p > Len(PageItems(page))

\* variant: the continuation URL is requested with the access token added
continuation_request_with_token(url, status) ==
  [ via |-> "direct", page |-> url, token |-> "tok_arg", status |-> status ]

\* requests.get(next_url, timeout=60): the URL as given, nothing added
continuation_request(url, status) ==
  [ via |-> "direct", page |-> url, token |-> "", status |-> status ]

\* every combination of the access_token argument and of the three environment
\* variables being set or empty (os.getenv of an unset variable is falsy too)
AllTokenCases ==
  { [ explicit |-> x, env |-> [ACCESS_TOKEN |-> a, ACCESS_TOKEN_FB |-> f, ACCESS_TOKEN_IG |-> g] ] :
      x \in {"", "tok_arg"}, a \in {"", "tok_env"}, f \in {"", "tok_fb"}, g \in {"", "tok_ig"} }

\* the access_token argument and the environment of a call: with and without
\* the argument, and with the environment filled from each variable onwards
TokenCases ==
  { [ explicit |-> x, env |-> e ] :
      x \in {"", "tok_arg"},
      e \in { [ACCESS_TOKEN |-> "tok_env", ACCESS_TOKEN_FB |-> "tok_fb", ACCESS_TOKEN_IG |-> "tok_ig"],
              [ACCESS_TOKEN |-> "", ACCESS_TOKEN_FB |-> "tok_fb", ACCESS_TOKEN_IG |-> "tok_ig"],
              [ACCESS_TOKEN |-> "", ACCESS_TOKEN_FB |-> "", ACCESS_TOKEN_IG |-> "tok_ig"],
              [ACCESS_TOKEN |-> "", ACCESS_TOKEN_FB |-> "", ACCESS_TOKEN_IG |-> ""] } }

SqlIdle ==
  /\ modulo = "fb_sql"
  /\ store = {}
  /\ last = NoCall
  /\ nops = 0
  /\ RunIdle
  /\ WkIdle

InitApi ==
  /\ SqlIdle
  /\ OrchIdle
  /\ \E tc \in TokenCases : explicit = tc.explicit /\ env = tc.env
  /\ upstream \in Chains
  /\ caller \in {"fb_get", "paginate"}
  /\ fb_pc = "idle"
  /\ attempt = 0
  /\ requests = <<>>
  /\ sleeps = <<>>
  /\ result = None
  /\ pag_pc = "idle"
  /\ data = None
  /\ pos = 1
  /\ yielded = <<>>

\* paginate line `data = fb_get(...)`: what the generator does with the
\* outcome of the first-page fetch
PaginateAfterFbGet(outcome, body) ==
  IF caller # "paginate"
  THEN UNCHANGED <<pag_pc, data, pos, yielded>>
  ELSE IF outcome = "returned"
  THEN /\ pag_pc' = "yield"
       /\ data' = Some(body)
       /\ pos' = 1
       /\ UNCHANGED yielded
  ELSE /\ pag_pc' = "error"
       /\ UNCHANGED <<data, pos, yielded>>

\* fb_get up to the loop: token = _pick_token(access_token)
fb_get_call ==
  /\ fb_pc = "idle"
  /\ caller \in {"fb_get", "paginate"}
  /\ IF pick_token(explicit, env) = ""
     THEN /\ fb_pc' = "missing_credential"
          /\ PaginateAfterFbGet("raised", ErrorBody)
     ELSE /\ fb_pc' = "loop"
          /\ IF caller = "paginate"
             THEN pag_pc' = "fetch_first" /\ UNCHANGED <<data, pos, yielded>>
             ELSE UNCHANGED <<pag_pc, data, pos, yielded>>
  /\ attempt' = 0
  /\ UNCHANGED <<env, explicit, upstream, caller, requests, sleeps, result>>
  /\ UNCHANGED dbvars

\* one iteration of the loop of fb_get: requests.get and the status checks
fb_get_request(status) ==
  /\ fb_pc = "loop"
  /\ attempt < MaxAttempts
  /\ requests' = Append(requests,
                   [ via |-> "fb_get", page |-> 1,
                     token |-> pick_token(explicit, env), status |-> status ])
  /\ IF status = 200
     THEN /\ fb_pc' = "returned"
          /\ result' = Some(Body(upstream, 1))
          /\ PaginateAfterFbGet("returned", Body(upstream, 1))
          /\ UNCHANGED <<attempt, sleeps>>
     ELSE IF IsRateLimit(status)
     THEN /\ sleeps' = Append(sleeps,
                        [ after |-> Len(requests) + 1, secs |-> Backoff(attempt) ])
          /\ attempt' = attempt + 1
          /\ UNCHANGED <<fb_pc, result, pag_pc, data, pos, yielded>>
     ELSE /\ fb_pc' = "upstream_error"
          /\ PaginateAfterFbGet("raised", ErrorBody)
          /\ UNCHANGED <<attempt, sleeps, result>>
  /\ UNCHANGED <<env, explicit, upstream, caller>>
  /\ UNCHANGED dbvars

\* range(5) is exhausted: raise RuntimeError("Rate limit persistente ...")
fb_get_exhausted ==
  /\ fb_pc = "loop"
  /\ attempt >= MaxAttempts
  /\ fb_pc' = "rate_limit_exceeded"
  /\ PaginateAfterFbGet("raised", ErrorBody)
  /\ UNCHANGED <<env, explicit, upstream, caller, attempt, requests, sleeps, result>>
  /\ UNCHANGED dbvars

\* requests.get raises (timeout=60, connection error): fb_get lets it through
fb_get_network_error ==
  /\ fb_pc = "loop"
  /\ attempt < MaxAttempts
  /\ fb_pc' = "network_error"
  /\ PaginateAfterFbGet("raised", ErrorBody)
  /\ UNCHANGED <<env, explicit, upstream, caller, attempt, requests, sleeps, result>>
  /\ UNCHANGED dbvars

\* yield from data.get("data", []): hand the next item to the consumer
paginate_yield ==
  /\ pag_pc = "yield"
  /\ pos <= Len(PageItems(data[1]))
  /\ yielded' = Append(yielded, PageItems(data[1])[pos])
  /\ pos' = pos + 1
  /\ UNCHANGED <<env, explicit, upstream, caller, fb_pc, attempt, requests,
                 sleeps, result, pag_pc, data>>
  /\ UNCHANGED dbvars

\* the page is exhausted and has no paging.next: break
paginate_break ==
  /\ pag_pc = "yield"
  /\ page_exhausted(data[1], pos)
  /\ next_url(data[1]) = 0
  /\ pag_pc' = "done"
  /\ UNCHANGED <<env, explicit, upstream, caller, fb_pc, attempt, requests,
                 sleeps, result, data, pos, yielded>>
  /\ UNCHANGED dbvars

\* data = requests.get(next_url, timeout=60).json()
\* the response has `status`; its body is JSON (json = TRUE) or not
paginate_next(status, json) ==
  /\ pag_pc = "yield"
  /\ page_exhausted(data[1], pos)
  /\ next_url(data[1]) # 0
  /\ status = 200 => json
  /\ requests' = Append(requests, continuation_request(next_url(data[1]), status))
  /\ IF ~json
     THEN /\ pag_pc' = "error"
          /\ UNCHANGED <<data, pos>>
     ELSE /\ data' = IF status = 200
                     THEN Some(Body(upstream, next_url(data[1])))
                     ELSE Some(ErrorBody)
          /\ pos' = 1
          /\ UNCHANGED pag_pc
  /\ UNCHANGED <<env, explicit, upstream, caller, fb_pc, attempt, sleeps,
                 result, yielded>>
  /\ UNCHANGED dbvars

\* requests.get(next_url) raises: the exception leaves the generator
paginate_network_error ==
  /\ pag_pc = "yield"
  /\ page_exhausted(data[1], pos)
  /\ next_url(data[1]) # 0
  /\ pag_pc' = "error"
  /\ UNCHANGED <<env, explicit, upstream, caller, fb_pc, attempt, requests,
                 sleeps, result, data, pos, yielded>>
  /\ UNCHANGED dbvars

\* the consumer abandons the generator while it is suspended at a yield
consumer_stop ==
  /\ pag_pc = "yield"
  /\ pos > 1
  /\ pag_pc' = "closed"
  /\ UNCHANGED <<env, explicit, upstream, caller, fb_pc, attempt, requests,
                 sleeps, result, data, pos, yielded>>
  /\ UNCHANGED dbvars

NextApi ==
  \/ fb_get_call
  \/ \E status \in Statuses : fb_get_request(status)
  \/ fb_get_exhausted
  \/ fb_get_network_error
  \/ paginate_yield
  \/ paginate_break
  \/ \E status \in Statuses, json \in BOOLEAN : paginate_next(status, json)
  \/ paginate_network_error
  \/ consumer_stop

SpecApi == InitApi /\ [][NextApi]_vars

\* the calling thread runs until its call ends: every step that is enabled
\* is eventually taken
SpecApiFair == SpecApi /\ WF_vars(NextApi)

\* paginate called with an explicit token: the runs in which requests happen
InitPaginate ==
  /\ InitApi
  /\ caller = "paginate"
  /\ explicit = "tok_arg"
  /\ env = [ACCESS_TOKEN |-> "", ACCESS_TOKEN_FB |-> "", ACCESS_TOKEN_IG |-> ""]

SpecPaginateFair == InitPaginate /\ [][NextApi]_vars /\ WF_vars(NextApi)

\* fb_get and paginate under every combination of credentials, over one
\* two-page collection
InitToken ==
  /\ SqlIdle
  /\ OrchIdle
  /\ \E tc \in AllTokenCases : explicit = tc.explicit /\ env = tc.env
  /\ upstream = MkChain(<<1, 1>>)
  /\ caller \in {"fb_get", "paginate"}
  /\ fb_pc = "idle"
  /\ attempt = 0
  /\ requests = <<>>
  /\ sleeps = <<>>
  /\ result = None
  /\ pag_pc = "idle"
  /\ data = None
  /\ pos = 1
  /\ yielded = <<>>

SpecToken == InitToken /\ [][NextApi]_vars

(***************************************************************************)
(* Properties of fb_get and paginate                                       *)
(***************************************************************************)
\* requests issued by the loop of fb_get, in order
FbRequests == SelectSeq(requests, LAMBDA r : r.via = "fb_get")

\* requests issued by paginate to a paging.next URL, in order
DirectRequests == SelectSeq(requests, LAMBDA r : r.via = "direct")

\* C5 (as claimed): RateLimitExceeded surfaces on the 6th consecutive
\* rate-limit response, after 5 retries, so that 5 rate-limit responses
\* followed by a 200 still return the body.
CE_C5 ==
  fb_pc = "rate_limit_exceeded" => Len(FbRequests) = 6

\* C6: the wait after the rate-limited attempt number k is exactly 2^k
\* seconds, the waits of one call are strictly increasing, every rate-limited
\* attempt is followed by its wait, and a wait happens only after a 429 or
\* 613 response.
T_C6 ==
  /\ \A i \in 1..Len(sleeps) :
       LET a == sleeps[i].after
       IN /\ a \in 1..Len(requests)
          /\ requests[a].via = "fb_get"
          /\ requests[a].status \in {429, 613}
          /\ sleeps[i].secs = 2 ^ (a - 1)
          /\ i > 1 => /\ sleeps[i].secs > sleeps[i - 1].secs
                      /\ sleeps[i].after > sleeps[i - 1].after
  /\ \A a \in 1..Len(requests) :
       (requests[a].via = "fb_get" /\ requests[a].status \in {429, 613})
         => \E i \in 1..Len(sleeps) : sleeps[i].after = a

\* C6 witness: a call that was rate-limited three times, waited 1, 2 and 4
\* seconds and then got its 200.
W_C6 ==
  /\ fb_pc = "returned"
  /\ Len(sleeps) = 3
  /\ sleeps[1].secs = 1 /\ sleeps[2].secs = 2 /\ sleeps[3].secs = 4

\* C7: a non-2xx response other than 429 and 613 makes fb_get raise at once:
\* no sleep follows it and the call issues no further request, whatever the
\* attempt number.
T_C7 ==
  [][ /\ ( /\ Len(requests') = Len(requests) + 1
           /\ requests'[Len(requests')].via = "fb_get"
           /\ ~(requests'[Len(requests')].status \in 200..299)
           /\ ~(requests'[Len(requests')].status \in {429, 613}) )
         => (fb_pc' = "upstream_error" /\ sleeps' = sleeps)
      /\ fb_pc = "upstream_error"
         => (requests' = requests /\ sleeps' = sleeps /\ fb_pc' = fb_pc) ]_vars

\* C7 witness: a 500 received on the third attempt, after two rate-limit
\* responses and their two waits.
W_C7 ==
  /\ fb_pc = "upstream_error"
  /\ Len(requests) = 3
  /\ requests[3].status = 500
  /\ Len(sleeps) = 2

\* the items of a chain of pages in server order
RECURSIVE Flatten(_)
Flatten(chain) ==
  IF Len(chain) = 0 THEN <<>> ELSE Head(chain) \o Flatten(Tail(chain))

\* s is an initial segment of t
IsPrefix(s, t) == Len(s) <= Len(t) /\ \A i \in 1..Len(s) : s[i] = t[i]

\* every continuation fetch made so far was answered with its page
AllDirectOk == \A i \in 1..Len(DirectRequests) : DirectRequests[i].status = 200

\* C8: with every fetch succeeding, paginate yields exactly the T items of
\* the N pages, each once, in server order, empty pages included.
T_C8 ==
  AllDirectOk =>
    /\ IsPrefix(yielded, Flatten(upstream))
    /\ pag_pc = "done" => yielded = Flatten(upstream)

\* C8 witness: three pages of 2, 0 and 1 items were served and the generator
\* ended after yielding the three items.
W_C8 ==
  /\ pag_pc = "done"
  /\ AllDirectOk
  /\ Len(upstream) = 3
  /\ Len(upstream[1]) = 2 /\ Len(upstream[2]) = 0 /\ Len(upstream[3]) = 1
  /\ yielded = <<1, 2, 3>>

\* C9 (as claimed): after a failed fetch (the first page or a continuation
\* URL) paginate never ends the sequence normally.
CE_C9 ==
  ( \/ fb_pc \in {"missing_credential", "upstream_error",
                  "rate_limit_exceeded", "network_error"}
    \/ \E i \in 1..Len(DirectRequests) : DirectRequests[i].status # 200 )
  => pag_pc # "done"

\* C10 (as claimed): when the upstream serves its finite chain of pages,
\* paginate issues exactly one request per page.
CE_C10 ==
  (pag_pc = "done" /\ AllDirectOk) => Len(requests) = Len(upstream)

\* C10 (amended): paginate terminates; it issues one GET per continuation
\* page it reaches, in chain order and never after a response without
\* paging.next; the first page costs one request plus one per rate-limit
\* response, at most 5; when every page was served it stops after exactly
\* N - 1 continuation requests.
T_C10 ==
  /\ [] ( /\ Len(DirectRequests) <= Len(upstream) - 1
          /\ \A i \in 1..Len(DirectRequests) :
               /\ DirectRequests[i].page = i + 1
               /\ i < Len(DirectRequests) => DirectRequests[i].status = 200
          /\ Len(FbRequests) <= 5
          /\ \A i \in 1..Len(FbRequests) :
               i < Len(FbRequests) => FbRequests[i].status \in {429, 613}
          /\ (pag_pc = "done" /\ AllDirectOk)
               => Len(DirectRequests) = Len(upstream) - 1 )
  /\ <> (pag_pc \in {"done", "error", "closed"})

\* C10 witness: the first page was rate-limited once, then the three pages
\* were served and the generator stopped.
W_C10 ==
  /\ pag_pc = "done"
  /\ AllDirectOk
  /\ Len(upstream) = 3
  /\ Len(FbRequests) = 2
  /\ Len(DirectRequests) = 2

\* the credential sources in the order the claim gives them
Candidates == <<explicit, env.ACCESS_TOKEN, env.ACCESS_TOKEN_FB, env.ACCESS_TOKEN_IG>>

NonEmptyCandidates == { i \in 1..4 : Candidates[i] # "" }

\* C11: every request fb_get issues carries the first non-empty value among the
\* explicit argument, ACCESS_TOKEN, ACCESS_TOKEN_FB and ACCESS_TOKEN_IG, in that
\* order; when all four are empty the call fails with the missing-credential
\* error and no HTTP request has been issued.
T_C11 ==
  /\ NonEmptyCandidates # {} =>
        /\ fb_pc # "missing_credential"
        /\ \A i \in 1..Len(FbRequests) :
             \E c \in NonEmptyCandidates :
               /\ \A b \in NonEmptyCandidates : c <= b
               /\ FbRequests[i].token = Candidates[c]
  /\ NonEmptyCandidates = {} =>
        /\ fb_pc \in {"idle", "missing_credential"}
        /\ requests = <<>>

\* the argument and ACCESS_TOKEN are empty, both remaining variables are set,
\* and the request went out with ACCESS_TOKEN_FB
W_C11 ==
  /\ explicit = ""
  /\ env.ACCESS_TOKEN = ""
  /\ env.ACCESS_TOKEN_FB = "tok_fb"
  /\ env.ACCESS_TOKEN_IG = "tok_ig"
  /\ fb_pc = "returned"
  /\ Len(FbRequests) >= 1
  /\ FbRequests[1].token = "tok_fb"

\* C12: a call of upsert_metricas_publicacion_diaria with a key field missing
\* (null) fails with InvalidRecord before any statement, the previous-row
\* lookup included, is issued, and the store is unchanged.
CE_C12 ==
  [][ (nops' = nops + 1 /\ NULL \in {last'.entity[1], last'.entity[2], last'.entity[3]})
        => /\ last'.outcome = "InvalidRecord"
           /\ last'.stmts = <<>>
           /\ store' = store ]_vars


(***************************************************************************)
(* Part III: ingestion runs (ingest_posts of fb_ingest.py)                 *)
(*                                                                         *)
(* A run opens one connection (`with conn() as con:`), upserts the daily   *)
(* records of a post in the order of sorted(per_day.items()) and commits   *)
(* when the with block ends; an exception leaves the block and rolls the   *)
(* transaction back.  Each upsert is two statements: the SELECT of the     *)
(* previous row and the INSERT ... ON CONFLICT.                            *)
(***************************************************************************)
\* the post whose daily series the runs ingest
RunEntity == <<"facebook", "pg1", "e1">>

\* the metric maps a run may build for a day
RunInputs == {mA, mB}

\* variant: the series is taken latest day first
sorted_desc(S) ==
  LET RECURSIVE desc(_)
      desc(T) == IF T = {} THEN <<>>
                 ELSE LET x == CHOOSE x \in T : \A y \in T : y <= x
                      IN <<x>> \o desc(T \ {x})
  IN desc(S)

\* sorted(per_day.items()): the days of the series in ascending order
sorted(S) ==
  LET RECURSIVE asc(_)
      asc(T) == IF T = {} THEN <<>>
                ELSE LET x == CHOOSE x \in T : \A y \in T : x <= y
                     IN <<x>> \o asc(T \ {x})
  IN asc(S)

\* what the statements of run r see: the committed table overlaid with the
\* rows its own open transaction has written
View(r) ==
  { x \in store : Conflicting(runs[r].pend, x) = {} } \cup runs[r].pend

Done == {"ended", "aborted"}

IdleRun(days) ==
  [pc |-> "idle", per_day |-> days, recs |-> <<>>, i |-> 1, prev |-> None,
   m |-> mC, pend |-> {}]

\* one run over the daily series of one post, on an empty table
InitRun ==
  /\ modulo = "fb_sql"
  /\ store = {}
  /\ last = NoCall
  /\ nops = 0
  /\ ApiIdle
  /\ WkIdle
  /\ serial = TRUE
  /\ commits = <<>>
  /\ \E days \in (SUBSET Dates) \ {{}} :
       runs = [r \in RunIds |-> IF r = "A" THEN IdleRun(days) ELSE RunIdleRec]

\* two runs over series of one or two days of the same post, one after the
\* other (serial) or at the same time
InitRun2 ==
  /\ modulo = "fb_sql"
  /\ store = {}
  /\ last = NoCall
  /\ nops = 0
  /\ ApiIdle
  /\ WkIdle
  /\ serial \in BOOLEAN
  /\ commits = <<>>
  /\ \E da, db \in { S \in SUBSET Dates : Cardinality(S) \in {1, 2} } :
       runs = [r \in RunIds |-> IF r = "A" THEN IdleRun(da) ELSE IdleRun(db)]

\* `with conn() as con:` and the head of `for dia, vals in sorted(...)`
run_begin(r) ==
  /\ runs[r].pc = "idle"
  /\ (serial /\ r = "B") => runs["A"].pc \in Done
  /\ runs' = [runs EXCEPT ![r].recs = sorted(runs[r].per_day),
                          ![r].pc = IF runs[r].per_day = {} THEN "commit" ELSE "select"]
  /\ UNCHANGED <<serial, commits, sqlvars, apivars, orchvars, wkvars>>

\* building m for the day and prev = _ultimo_registro_prev(...)
run_select(r, m) ==
  /\ runs[r].pc = "select"
  /\ runs' = [runs EXCEPT
                ![r].m = m,
                ![r].prev = ultimo_registro_prev(modulo, View(r), RunEntity[1], RunEntity[2],
                                                 RunEntity[3], runs[r].recs[runs[r].i]),
                ![r].pc = "insert"]
  /\ UNCHANGED <<serial, commits, sqlvars, apivars, orchvars, wkvars>>

\* cur.execute(INSERT ... ON CONFLICT ...) inside the run's transaction; the
\* statement waits while another open transaction holds the same key
run_insert(r) ==
  /\ runs[r].pc = "insert"
  /\ LET row == row_fb_sql(RunEntity[1], RunEntity[2], RunEntity[3],
                            runs[r].recs[runs[r].i], runs[r].m, runs[r].prev)
         view == exec_upsert(modulo, View(r), row)
     IN /\ \A q \in RunIds \ {r} : Conflicting(runs[q].pend, row) = {}
        /\ runs' = [runs EXCEPT
                      ![r].pend = { x \in runs[r].pend : Conflicting({x}, row) = {} }
                                    \cup Conflicting(view, row),
                      ![r].i = runs[r].i + 1,
                      ![r].pc = IF runs[r].i + 1 > Len(runs[r].recs)
                                THEN "commit" ELSE "select"]
  /\ UNCHANGED <<serial, commits, sqlvars, apivars, orchvars, wkvars>>

\* the with block ends normally: the connection commits
run_commit(r) ==
  /\ runs[r].pc = "commit"
  /\ store' = View(r)
  /\ runs' = [runs EXCEPT ![r].pend = {}, ![r].pc = "ended"]
  /\ commits' = Append(commits, r)
  /\ UNCHANGED <<serial, modulo, last, nops, apivars, orchvars, wkvars>>

\* a statement raises (psycopg2.Error): nothing in ingest_posts catches it,
\* the exception leaves the with block and the connection rolls back
run_fail(r) ==
  /\ runs[r].pc \in {"select", "insert"}
  /\ runs' = [runs EXCEPT ![r].pend = {}, ![r].pc = "aborted"]
  /\ UNCHANGED <<serial, commits, sqlvars, apivars, orchvars, wkvars>>

NextRun ==
  \/ \E r \in RunIds : run_begin(r)
  \/ \E r \in RunIds, m \in RunInputs : run_select(r, m)
  \/ \E r \in RunIds : run_insert(r)
  \/ \E r \in RunIds : run_commit(r)
  \/ \E r \in RunIds : run_fail(r)

SpecRun == InitRun /\ [][NextRun]_vars

SpecRun2 == InitRun2 /\ [][NextRun]_vars

\* the days run r has upserted so far
Upserted(r) == { runs[r].recs[j] : j \in 1..(runs[r].i - 1) }

\* C13: a persistence failure during the upsert of one daily record aborts
\* only that record: the records the run upserted before it are persisted
\* once the run has ended, and the run goes on with the following records.
CE_C13 ==
  \A r \in RunIds :
    runs[r].pc = "aborted" =>
      \A f \in Upserted(r) : RowsAt(store, RunEntity, f) # {}

\* row x of table st carries, in every delta column, its value minus the value
\* of the row of the same entity with the greatest earlier date in st (minus 0
\* when x is the earliest row)
DeltaOk(st, x) ==
  \A fld \in DeltaFields(x) :
    x["delta_" \o fld] =
      x[fld] - LatestValue(Earlier(st, <<x.plataforma, x.pagina_id, x.publicacion_id>>,
                                   x.fecha_descarga), fld)

\* C20: starting from a table with no rows of the entity, once a run that
\* upserts the entity's daily records in strictly ascending date order has
\* ended, there is one row per day of the series and every stored row has
\* delta(field) = value(field) - value(field) of the stored row with the
\* greatest earlier date, and value - 0 for the earliest row.
T_C20 ==
  /\ \A x \in store : DeltaOk(store, x)
  /\ runs["A"].pc = "ended" =>
       \A f \in runs["A"].per_day : Cardinality(RowsAt(store, RunEntity, f)) = 1

\* the run committed three days with different values on days 1 and 2: the
\* row of day 3 is measured against day 2, not against day 1
W_C20 ==
  /\ runs["A"].pc = "ended"
  /\ runs["A"].per_day = {1, 2, 3}
  /\ \E x \in RowsAt(store, RunEntity, 3) :
       /\ x.delta_visualizaciones # x.visualizaciones
       /\ x.delta_visualizaciones #
            x.visualizaciones - LatestValue(RowsAt(store, RunEntity, 1), "visualizaciones")

\* C19: when two runs on the same entity are executed one after the other,
\* every row written by the later run has delta = value - value of the
\* nearest earlier row it can see; when they execute concurrently (witness)
\* the reads and writes interleave so that a row written by the run that
\* commits last is stored with a delta that differs from its value minus the
\* value of the stored nearest-earlier row.
T_C19 ==
  serial =>
    \A x \in View("B") :
      x.fecha_descarga \in Upserted("B") => DeltaOk(View("B"), x)

\* concurrent runs, both committed, B last: a row B wrote is inconsistent
\* with the stored row just before it
W_C19 ==
  /\ ~serial
  /\ commits = <<"A", "B">>
  /\ \E x \in store :
       /\ x.fecha_descarga \in Upserted("B")
       /\ ~DeltaOk(store, x)


(***************************************************************************)
(* Part IV: the weekly reduction and the weekly tables                     *)
(*                                                                         *)
(* Dates are day numbers counted from 2024-01-01 (day 0, a Monday), so     *)
(* 2024-01-29, -30 and -31 are days 28, 29 and 30.                         *)
(***************************************************************************)
\* date.isocalendar(): (ISO year, ISO week, ISO weekday); 2024 has 52 ISO
\* weeks, 2024-12-30 (day 364) opens week 1 of ISO year 2025
isocalendar(day) ==
  IF day < 364
  THEN <<2024, (day \div 7) + 1, (day % 7) + 1>>
  ELSE <<2025, ((day - 364) \div 7) + 1, ((day - 364) % 7) + 1>>

\* end.isocalendar()[:2]
IsoWeek(day) == SubSeq(isocalendar(day), 1, 2)

\* the days of the inputs: 2024-01-28 (a Sunday, week 4) and the days after
\* it (week 5)
PointDays == 27..(27 + MaxDate)

PointData == {"x", "y"}

Points == [end : PointDays, data : PointData]

RECURSIVE SeqsUpTo(_, _)
SeqsUpTo(S, n) ==
  IF n = 0 THEN {<<>>}
  ELSE LET shorter == SeqsUpTo(S, n - 1)
       IN shorter \cup { Append(q, x) : q \in { t \in shorter : Len(t) = n - 1 }, x \in S }

\* variant: `end <= byweek[key]["fecha"]`, the earliest date of the week wins
latest_by_iso_week_earliest(pts) ==
  LET RECURSIVE loop(_, _)
      loop(rest, acc) ==
        IF rest = <<>> THEN acc
        ELSE LET end == Head(rest).end
                 key == IsoWeek(end)
             IN loop(Tail(rest),
                     IF key \notin DOMAIN acc \/ end <= acc[key].fecha
                     THEN [k \in DOMAIN acc \cup {key} |->
                             IF k = key THEN [fecha |-> end, data |-> Head(rest).data]
                             ELSE acc[k]]
                     ELSE acc)
  IN loop(pts, <<>>)

\* variant: `end > byweek[key]["fecha"]`, the first point of a tie is kept
latest_by_iso_week_strict(pts) ==
  LET RECURSIVE loop(_, _)
      loop(rest, acc) ==
        IF rest = <<>> THEN acc
        ELSE LET end == Head(rest).end
                 key == IsoWeek(end)
             IN loop(Tail(rest),
                     IF key \notin DOMAIN acc \/ end > acc[key].fecha
                     THEN [k \in DOMAIN acc \cup {key} |->
                             IF k = key THEN [fecha |-> end, data |-> Head(rest).data]
                             ELSE acc[k]]
                     ELSE acc)
  IN loop(pts, <<>>)

\* variant: no date comparison, the point that comes last in iteration order
\* represents its week
latest_by_iso_week_lastwins(pts) ==
  LET RECURSIVE loop(_, _)
      loop(rest, acc) ==
        IF rest = <<>> THEN acc
        ELSE LET end == Head(rest).end
                 key == IsoWeek(end)
             IN loop(Tail(rest),
                     [k \in DOMAIN acc \cup {key} |->
                        IF k = key THEN [fecha |-> end, data |-> Head(rest).data]
                        ELSE acc[k]])
  IN loop(pts, <<>>)

\* byweek = {}; for end, data in points: key = end.isocalendar()[:2];
\* if key not in byweek or end >= byweek[key]["fecha"]: byweek[key] = {...}
latest_by_iso_week(pts) ==
  LET RECURSIVE loop(_, _)
      loop(rest, acc) ==
        IF rest = <<>> THEN acc
        ELSE LET end == Head(rest).end
                 key == IsoWeek(end)
             IN loop(Tail(rest),
                     IF key \notin DOMAIN acc \/ end >= acc[key].fecha
                     THEN [k \in DOMAIN acc \cup {key} |->
                             IF k = key THEN [fecha |-> end, data |-> Head(rest).data]
                             ELSE acc[k]]
                     ELSE acc)
  IN loop(pts, <<>>)

\* the reducer alone, on every list of at most MaxPoints points
InitReduce ==
  /\ modulo = "fb_sql"
  /\ store = {}
  /\ last = NoCall
  /\ nops = 0
  /\ RunIdle
  /\ ApiIdle
  /\ points \in SeqsUpTo(Points, MaxPoints)
  /\ byweek = <<>>
  /\ semanal = {}
  /\ segmentos = {}
  /\ wlast = NoWeeklyCall

call_latest_by_iso_week ==
  /\ wlast.op = "none"
  /\ byweek' = latest_by_iso_week(points)
  /\ wlast' = [op |-> "latest_by_iso_week"]
  /\ UNCHANGED <<points, semanal, segmentos, sqlvars, runvars, apivars, orchvars>>

NextReduce == call_latest_by_iso_week

SpecReduce == InitReduce /\ [][NextReduce]_vars

\* indices of the points of week k, and the greatest date among them
InWeek(k) == { i \in 1..Len(points) : IsoWeek(points[i].end) = k }

MaxEnd(k) ==
  CHOOSE e \in { points[i].end : i \in InWeek(k) } :
    \A i \in InWeek(k) : points[i].end <= e

\* C14: the reduction has exactly one entry per ISO (year, week) occurring in
\* the input, and the entry's date is the greatest date among the input
\* points of that week (2024-01-29, -30, -31 give 2024-01-31).
T_C14 ==
  wlast.op = "latest_by_iso_week" =>
    /\ DOMAIN byweek = { IsoWeek(points[i].end) : i \in 1..Len(points) }
    /\ \A k \in DOMAIN byweek : byweek[k].fecha = MaxEnd(k)

\* the points of 2024-01-31, -29 and -30, in that order, reduce to one entry
\* for week (2024, 5) dated 2024-01-31
W_C14 ==
  /\ wlast.op = "latest_by_iso_week"
  /\ Len(points) = 3
  /\ points[1].end = 30 /\ points[2].end = 28 /\ points[3].end = 29
  /\ DOMAIN byweek = {<<2024, 5>>}
  /\ byweek[<<2024, 5>>].fecha = 30

\* C15: when several points of one ISO week carry the same greatest date, the
\* entry keeps the data of the one that comes last in iteration order.
T_C15 ==
  wlast.op = "latest_by_iso_week" =>
    \A k \in DOMAIN byweek :
      LET top == { i \in InWeek(k) : points[i].end = MaxEnd(k) }
          lastTop == CHOOSE i \in top : \A j \in top : j <= i
      IN byweek[k].data = points[lastTop].data

\* two points of the same day with different data: the later one is kept
W_C15 ==
  /\ wlast.op = "latest_by_iso_week"
  /\ Len(points) >= 2
  /\ points[1].end = 30 /\ points[2].end = 30
  /\ points[1].data = "x" /\ points[2].data = "y"
  /\ \A i \in 1..Len(points) : points[i].end <= 30
  /\ byweek[<<2024, 5>>].data = "y"


\* the accounts whose weekly statistics are stored
WeeklyPages == {"ig1", "ig2"}

\* the row VALUES (%s,%s,%s,%s,%s,%s) binds for `fila`
fila_row(plataforma, pagina_id, fila) ==
  [ plataforma |-> plataforma,
    pagina_id |-> pagina_id,
    fecha_corte_semana |-> fila.fecha_corte,
    total_seguidores |-> Get(fila, "fans_total", 0),
    alcance_pagina |-> Get(fila, "alcance", 0),
    visualizaciones_pagina |-> Get(fila, "impresiones", 0) ]

\* ON CONFLICT (plataforma, pagina_id, fecha_corte_semana)
WeeklyConflictTarget == {"plataforma", "pagina_id", "fecha_corte_semana"}

WeeklyConflicting(st, row) ==
  { r \in st : \A k \in WeeklyConflictTarget : r[k] = row[k] }

\* variant: DO UPDATE SET leaves alcance_pagina out
exec_upsert_semanal_keep_alcance(st, row) ==
  LET hit == WeeklyConflicting(st, row)
  IN IF hit = {}
     THEN st \cup {row}
     ELSE (st \ hit) \cup
          { [r EXCEPT !.total_seguidores = row.total_seguidores,
                      !.visualizaciones_pagina = row.visualizaciones_pagina] : r \in hit }

\* INSERT INTO estadisticas_pagina_semanal ... ON CONFLICT (...) DO UPDATE SET
\* total_seguidores, alcance_pagina, visualizaciones_pagina = EXCLUDED.*
exec_upsert_semanal(st, row) ==
  LET hit == WeeklyConflicting(st, row)
  IN IF hit = {}
     THEN st \cup {row}
     ELSE (st \ hit) \cup
          { [r EXCEPT !.total_seguidores = row.total_seguidores,
                      !.alcance_pagina = row.alcance_pagina,
                      !.visualizaciones_pagina = row.visualizaciones_pagina] : r \in hit }

\* the insights of one day as the account reports them in a given run
DayVals(day, variant) ==
  [reach |-> 10 * day + variant, follower_count |-> 1000 + day + variant]

\* `fila` as ingest_account_weekly of ig_ingest.py builds it from an entry
ig_fila(entry) ==
  [ fecha_corte |-> entry.fecha,
    impresiones |-> 0,
    alcance |-> entry.data.reach,
    video_views |-> 0,
    fans_total |-> entry.data.follower_count ]

\* for entry in by_iso_week.values(): upsert_estadistica_pagina_semanal(...)
RECURSIVE persist_entries(_, _, _, _)
persist_entries(st, plataforma, pagina_id, entries) ==
  IF entries = {} THEN st
  ELSE LET entry == CHOOSE x \in entries : \A y \in entries : x.fecha <= y.fecha
       IN persist_entries(
            exec_upsert_semanal(st, fila_row(plataforma, pagina_id, ig_fila(entry))),
            plataforma, pagina_id, entries \ {entry})

WeeklyTablesInit ==
  /\ modulo = "fb_sql"
  /\ store = {}
  /\ last = NoCall
  /\ nops = 0
  /\ RunIdle
  /\ ApiIdle
  /\ WkIdle

\* ingest_account_weekly() of ig_ingest.py run on the day after `hasta`: the
\* daily insights up to `hasta`, the last point of every ISO week, one upsert
\* per week
ingest_account_weekly(pagina_id, hasta, variant) ==
  /\ nops < MaxWeeklyOps
  /\ LET days == { x \in PointDays : hasta - 28 <= x /\ x <= hasta }
         order == sorted(days)
         per_day == [i \in 1..Len(order) |->
                       [end |-> order[i], data |-> DayVals(order[i], variant)]]
         by_iso_week == latest_by_iso_week(per_day)
     IN /\ points' = per_day
        /\ byweek' = by_iso_week
        /\ semanal' = persist_entries(semanal, "instagram", pagina_id,
                                      { by_iso_week[k] : k \in DOMAIN by_iso_week })
  /\ wlast' = [op |-> "ingest_account_weekly", pagina_id |-> pagina_id, hasta |-> hasta]
  /\ nops' = nops + 1
  /\ UNCHANGED <<segmentos, modulo, store, last, runvars, apivars, orchvars>>

NextIngestWeekly ==
  \E pg \in WeeklyPages, hasta \in PointDays, variant \in {1, 2} :
    ingest_account_weekly(pg, hasta, variant)

SpecIngestWeekly == WeeklyTablesInit /\ [][NextIngestWeekly]_vars

\* C16: after any sequence of weekly ingestion runs the table holds at most
\* one weekly row per (platform, page_id, iso_year, iso_week).
CE_C16 ==
  \A a, b \in semanal :
    ( /\ a.plataforma = b.plataforma
      /\ a.pagina_id = b.pagina_id
      /\ IsoWeek(a.fecha_corte_semana) = IsoWeek(b.fecha_corte_semana) ) => a = b


\* `fila` dicts handed to the weekly upsert; the second has no "impresiones"
FilaInputs(day) ==
  { [fecha_corte |-> day, fans_total |-> 100, alcance |-> 40, impresiones |-> 70],
    [fecha_corte |-> day, fans_total |-> 110, alcance |-> 55] }

\* upsert_estadistica_pagina_semanal(conn, plataforma, pagina_id, fila)
upsert_estadistica_pagina_semanal(plataforma, pagina_id, fila) ==
  /\ nops < MaxWeeklyOps
  /\ LET row == fila_row(plataforma, pagina_id, fila)
     IN /\ semanal' = exec_upsert_semanal(semanal, row)
        /\ wlast' = [ op |-> "upsert_estadistica_pagina_semanal",
                      plataforma |-> plataforma, pagina_id |-> pagina_id,
                      fila |-> fila,
                      old |-> WeeklyConflicting(semanal, row) ]
  /\ nops' = nops + 1
  /\ UNCHANGED <<points, byweek, segmentos, modulo, store, last, runvars, apivars, orchvars>>

\* the (dimension, value) pairs of the audience breakdowns
SegmentDims == { <<"genero", "F">>, <<"pais", "EC">>, <<"ciudad", "Quito">> }

\* the tuple VALUES (%s,%s,%s,%s,%s,%s,%s,%s) binds; the keyword arguments
\* left out are None
segmento_row(plataforma, pagina_id, fecha_corte, dim, cantidad) ==
  [ plataforma |-> plataforma,
    pagina_id |-> pagina_id,
    fecha_corte_semana |-> fecha_corte,
    genero |-> IF dim[1] = "genero" THEN dim[2] ELSE NULL,
    pais |-> IF dim[1] = "pais" THEN dim[2] ELSE NULL,
    ciudad |-> IF dim[1] = "ciudad" THEN dim[2] ELSE NULL,
    nivel_educacion |-> NULL,
    cantidad_seguidores |-> cantidad ]

\* the columns on which two segment rows are the same segment: the statement
\* names no conflict target and the table definition is not in the sources,
\* so the key is the one the specification gives (platform, page, cutoff date,
\* dimension, dimension value)
SegmentKey ==
  {"plataforma", "pagina_id", "fecha_corte_semana", "genero", "pais", "ciudad",
   "nivel_educacion"}

SegmentConflicting(st, row) == { r \in st : \A k \in SegmentKey : r[k] = row[k] }

\* variant: ON CONFLICT (...) DO UPDATE SET cantidad_seguidores = EXCLUDED...
exec_insert_segmento_update(st, row) == (st \ SegmentConflicting(st, row)) \cup {row}

\* INSERT INTO segmentacion_seguidores_semanal ... ON CONFLICT DO NOTHING
exec_insert_segmento(st, row) ==
  IF SegmentConflicting(st, row) # {} THEN st ELSE st \cup {row}

\* insert_segmento_semanal(conn, plataforma, pagina_id, fecha_corte,
\*                         genero/pais/ciudad=k, cantidad=n)
insert_segmento_semanal(plataforma, pagina_id, fecha_corte, dim, cantidad) ==
  /\ nops < MaxWeeklyOps
  /\ LET row == segmento_row(plataforma, pagina_id, fecha_corte, dim, cantidad)
     IN /\ segmentos' = exec_insert_segmento(segmentos, row)
        /\ wlast' = [ op |-> "insert_segmento_semanal", row |-> row,
                      old |-> SegmentConflicting(segmentos, row),
                      outcome |-> "ok" ]
  /\ nops' = nops + 1
  /\ UNCHANGED <<points, byweek, semanal, modulo, store, last, runvars, apivars, orchvars>>

NextWeekly ==
  \/ \E pg \in WeeklyPages, day \in PointDays : \E fila \in FilaInputs(day) :
       upsert_estadistica_pagina_semanal("instagram", pg, fila)
  \/ \E pg \in WeeklyPages, day \in PointDays, dim \in SegmentDims, n \in {10, 20} :
       insert_segmento_semanal("instagram", pg, day, dim, n)

SpecWeekly == WeeklyTablesInit /\ [][NextWeekly]_vars

\* C17: the page-level weekly upsert stores absolute values and overwrites on
\* conflict: after the call the row of (platform, page_id, cutoff date) holds
\* exactly the three values of the input (0 for a missing one) whatever was
\* stored before, every other row is untouched, and repeating the call with
\* the same input leaves the table as the first call left it.
T_C17 ==
  [][ (nops' = nops + 1 /\ wlast'.op = "upsert_estadistica_pagina_semanal") =>
        LET row == fila_row(wlast'.plataforma, wlast'.pagina_id, wlast'.fila)
            atKey(st) == { r \in st : /\ r.plataforma = wlast'.plataforma
                                      /\ r.pagina_id = wlast'.pagina_id
                                      /\ r.fecha_corte_semana = wlast'.fila.fecha_corte }
        IN /\ atKey(semanal') = {row}
           /\ semanal' \ atKey(semanal') = semanal \ atKey(semanal)
           /\ ( /\ wlast.op = "upsert_estadistica_pagina_semanal"
                /\ wlast.plataforma = wlast'.plataforma
                /\ wlast.pagina_id = wlast'.pagina_id
                /\ wlast.fila = wlast'.fila ) => semanal' = semanal ]_vars

\* the call found a row under its key and all three stored values changed
W_C17 ==
  /\ wlast.op = "upsert_estadistica_pagina_semanal"
  /\ \E o \in wlast.old :
       \E r \in semanal :
         /\ r.plataforma = o.plataforma /\ r.pagina_id = o.pagina_id
         /\ r.fecha_corte_semana = o.fecha_corte_semana
         /\ r.total_seguidores # o.total_seguidores
         /\ r.alcance_pagina # o.alcance_pagina
         /\ r.visualizaciones_pagina # o.visualizaciones_pagina
  /\ Cardinality(semanal) = 1

InitFbGet ==
  /\ InitApi
  /\ caller = "fb_get"
  /\ upstream = MkChain(<<1>>)

NextFbGet ==
  \/ fb_get_call
  \/ \E status \in Statuses \cup {201} : fb_get_request(status)
  \/ fb_get_exhausted
  \/ fb_get_network_error

SpecFbGet == InitFbGet /\ [][NextFbGet]_vars

\* the call of fb_get has ended
FbGetEnded ==
  fb_pc \in {"returned", "missing_credential", "upstream_error",
             "rate_limit_exceeded", "network_error"}

\* requests.get calls made: those answered, plus the one that raised
Issued == Len(FbRequests) + (IF fb_pc = "network_error" THEN 1 ELSE 0)

\* responses with status 429 or 613 received so far
RateLimited == { i \in 1..Len(FbRequests) : FbRequests[i].status \in {429, 613} }

\* C29 as stated: in every execution of fb_get between 1 and 5 requests are
\* issued, a body is returned exactly when the last response had status 200,
\* and there are as many sleeps as rate-limited responses.
CE_C29 ==
  FbGetEnded =>
    /\ Issued \in 1..5
    /\ result # None <=>
         (FbRequests # <<>> /\ FbRequests[Len(FbRequests)].status = 200)
    /\ Len(sleeps) = Cardinality(RateLimited)

\* C29 (amended): an execution of fb_get that resolves a credential issues
\* between 1 and 5 requests, and one that resolves none issues no request; a
\* body is returned exactly when the last response had status 200 (201 raises
\* like any other error); the sleeps are as many as the rate-limited responses,
\* each right after its response, the final rate-limit failure included.
T_C29 ==
  /\ Len(sleeps) = Cardinality(RateLimited)
  /\ \A j \in 1..Len(sleeps) : sleeps[j].after \in RateLimited
  /\ Issued <= 5
  /\ (FbGetEnded /\ fb_pc # "missing_credential") => Issued >= 1
  /\ fb_pc = "missing_credential" => Issued = 0
  /\ result # None <=> fb_pc = "returned"
  /\ FbGetEnded =>
       ( fb_pc = "returned" <=>
           (FbRequests # <<>> /\ FbRequests[Len(FbRequests)].status = 200) )
  /\ fb_pc = "rate_limit_exceeded" =>
       /\ Len(sleeps) = 5
       /\ sleeps[5].after = Len(FbRequests)

\* five rate-limited responses: five requests, five sleeps, then the failure
W_C29 ==
  /\ fb_pc = "rate_limit_exceeded"
  /\ Len(FbRequests) = 5
  /\ Len(sleeps) = 5
  /\ result = None


\* the cumulative columns that have a delta column, per module
DeltaColumns(mod) ==
  IF mod = "fb_sql"
  THEN {"visualizaciones", "alcance", "reacciones", "comentarios", "compartidos", "guardados"}
  ELSE {"visualizaciones", "alcance", "comentarios", "compartidos", "guardados"}

\* C25: a cumulative field absent from the incoming record is stored as 0 and
\* its delta is 0 minus the previous stored value (0 when there is no previous
\* row); the upsert succeeds and stores the row.
T_C25 ==
  [][ nops' = nops + 1 =>
        /\ last'.outcome = "ok"
        /\ RowsAt(store', last'.entity, last'.fecha) # {}
        /\ \A r \in RowsAt(store', last'.entity, last'.fecha) :
             \A fld \in DeltaColumns(modulo) \ DOMAIN last'.m :
               /\ r[fld] = 0
               /\ r["delta_" \o fld] =
                    0 - LatestValue(Earlier(store, last'.entity, last'.fecha), fld) ]_vars

\* a record without "alcance" was upserted after a day that had reach 80: the
\* row stores reach 0 and delta -80
W_C25 ==
  /\ last.op = "upsert"
  /\ last.m = mC
  /\ \E r \in RowsAt(store, last.entity, last.fecha) :
       /\ r.alcance = 0
       /\ r.delta_alcance = -80

\* C30: in both modules every delta column is the new value of its own column
\* minus the value of the same-named column of the previous row; graph_sql
\* has the five delta columns, fb_sql the six (reacciones too).
T_C30 ==
  [][ nops' = nops + 1 =>
        \A r \in RowsAt(store', last'.entity, last'.fecha) :
          /\ DeltaFields(r) = DeltaColumns(modulo)
          /\ \A fld \in DeltaColumns(modulo) :
               \A q \in Earlier(store, last'.entity, last'.fecha) :
                 (\A o \in Earlier(store, last'.entity, last'.fecha) :
                    o.fecha_descarga <= q.fecha_descarga)
                 => r["delta_" \o fld] = r[fld] - q[fld] ]_vars

\* graph_sql: the previous row has 5 comments and 2 shares, the new record 8
\* comments and no shares: the deltas are 3 and -2
W_C30 ==
  /\ modulo = "graph_sql"
  /\ last.op = "upsert"
  /\ last.m = mC
  /\ \E r \in RowsAt(store, last.entity, last.fecha) :
       /\ r.delta_comentarios = 3
       /\ r.delta_compartidos = -2

\* the page of the collection that holds item x
PageOf(x) ==
  CHOOSE i \in 1..Len(upstream) : \E j \in 1..Len(upstream[i]) : upstream[i][j] = x

\* number of items on the pages before page p
ItemsBefore(p) == Len(Flatten(SubSeq(upstream, 1, p - 1)))

\* C24: a call of paginate fetches its first page through one call of the
\* client, before anything else; the request for page i+1 is issued only after
\* every item of page i (and of the pages before) has been yielded; a consumer
\* that stops after an item of page i has caused no request for a later page.
T_C24 ==
  caller = "paginate" =>
    /\ \A i \in 1..Len(requests) :
         IF requests[i].via = "fb_get"
         THEN /\ requests[i].page = 1
              /\ \A j \in 1..(i - 1) :
                   requests[j].via = "fb_get" /\ requests[j].status \in {429, 613}
         ELSE /\ requests[i].page > 1
              /\ Len(yielded) >= ItemsBefore(requests[i].page)
    /\ yielded # <<>> => (FbRequests # <<>> /\ FbRequests[Len(FbRequests)].status = 200)
    /\ (pag_pc = "closed" /\ AllDirectOk) =>
         \A i \in 1..Len(requests) : requests[i].page <= PageOf(yielded[Len(yielded)])

\* the consumer stopped after the only item of page 1 although the listing
\* has further pages: one request was made
W_C24 ==
  /\ pag_pc = "closed"
  /\ Len(upstream) = 3
  /\ Len(upstream[1]) = 1
  /\ yielded = <<1>>
  /\ Len(requests) = 1

\* C28: every page after the first is fetched by one GET of the paging.next
\* URL as given, without credential; no response to it, 429 and 613 included,
\* is followed by a sleep or by a second request for the same page, and the
\* body of that one response is the page paginate goes on with.
T_C28 ==
  [][ Len(requests') = Len(requests) + 1 /\ requests'[Len(requests')].via = "direct" =>
        LET req == requests'[Len(requests')]
        IN /\ req.page = next_url(data[1])
           /\ req.token = ""
           /\ sleeps' = sleeps
           /\ \A i \in 1..Len(requests) : requests[i].page < req.page
           /\ pag_pc' # "error" =>
                /\ pos' = 1
                /\ data' = Some(IF req.status = 200 THEN Body(upstream, req.page)
                                 ELSE ErrorBody) ]_vars

\* a continuation page was answered 429: no sleep, no second request, the
\* generator went on with the error body and ended
W_C28 ==
  /\ pag_pc = "done"
  /\ Len(DirectRequests) = 1
  /\ DirectRequests[1].status = 429
  /\ sleeps = <<>>
  /\ data = Some(ErrorBody)


(***************************************************************************)
(* Part V.  The HTTP helpers of the LinkedIn and TikTok integrations       *)
(* (linkedin_api.li_get, tikttok_ingest.ttk_get).                          *)
(***************************************************************************)
\* _candidate_versions_back(24): the number of LinkedIn-Version headers tried
MonthsBack == 24

\* the status of one HTTP response received by li_get or ttk_get
ClientStatuses == {200, 400, 426, 429, 500}

\* months are counted from year 0: year * 12 + (month - 1); the month of the call
ThisMonth == 2026 * 12 + 10

\* d.strftime("%Y%m") read as a number: 202611 for November 2026
strftime_Ym(month) == (month \div 12) * 100 + (month % 12) + 1

\* variant: the candidates are listed oldest month first
candidate_versions_back_oldest_first(months_back) ==
  [i \in 1..months_back |-> strftime_Ym(ThisMonth - (months_back - i))]

\* _candidate_versions_back(months_back): the current month, then one month
\* earlier at each step
candidate_versions_back(months_back) ==
  [i \in 1..months_back |-> strftime_Ym(ThisMonth - (i - 1))]

\* a call about to be made: which helper, whether its token is configured,
\* and for li_get the versions it will try ([version] or the 24 candidates)
ClientCalls ==
  { [pc |-> "start", client |-> c.client, token |-> tok,
     given |-> c.given, versions |-> c.versions, nversions |-> Len(c.versions),
     sent |-> <<>>, requests |-> <<>>, sleeps |-> <<>>, outcome |-> "none"]
    : c \in { [client |-> "li_get", given |-> TRUE, versions |-> <<strftime_Ym(ThisMonth - 3)>>],
              [client |-> "li_get", given |-> FALSE,
               versions |-> candidate_versions_back(MonthsBack)],
              [client |-> "ttk_get", given |-> FALSE, versions |-> <<0>>] },
      tok \in {"", "tok"} }

InitClients ==
  /\ SqlIdle
  /\ FbIdle
  /\ orch = NoOrch
  /\ cli \in ClientCalls

\* li_get lines 27-33: the token check and the list of versions
li_get_call ==
  /\ cli.pc = "start"
  /\ cli.client = "li_get"
  /\ cli' = IF cli.token = ""
              THEN [cli EXCEPT !.pc = "raised", !.outcome = "missing_token"]
              ELSE [cli EXCEPT !.pc = "loop"]
  /\ UNCHANGED <<orch, sqlvars, runvars, wkvars, apivars>>

\* li_get lines 35-52: one iteration of `for ver in versions`.  426 moves to
\* the next version (and raises after the last one); any other status of
\* 400 or more raises at once; anything else returns the body.
li_get_request(status) ==
  /\ cli.pc = "loop"
  /\ cli.client = "li_get"
  /\ LET reqs == Append(cli.requests, status)
         ver == cli.versions[Len(reqs)]
         c1 == [cli EXCEPT !.requests = reqs, !.sent = Append(@, ver)]
     IN
     cli' = IF status = 426
              THEN IF Len(reqs) < cli.nversions
                     THEN c1
                     ELSE [c1 EXCEPT !.pc = "raised",
                                     !.outcome = "no_active_version"]
              ELSE IF status >= 400
                     THEN [c1 EXCEPT !.pc = "raised", !.outcome = "http_error"]
                     ELSE [c1 EXCEPT !.pc = "returned", !.outcome = "body"]
  /\ UNCHANGED <<orch, sqlvars, runvars, wkvars, apivars>>

\* ttk_get lines 31-32: the token check
ttk_get_call ==
  /\ cli.pc = "start"
  /\ cli.client = "ttk_get"
  /\ cli' = IF cli.token = ""
              THEN [cli EXCEPT !.pc = "raised", !.outcome = "missing_token"]
              ELSE [cli EXCEPT !.pc = "loop"]
  /\ UNCHANGED <<orch, sqlvars, runvars, wkvars, apivars>>

\* ttk_get lines 38-46: the single requests.get; a status of 400 or more
\* raises, anything else returns the body
ttk_get_request(status) ==
  /\ cli.pc = "loop"
  /\ cli.client = "ttk_get"
  /\ LET reqs == Append(cli.requests, status) IN
     cli' = IF status >= 400
              THEN [cli EXCEPT !.requests = reqs, !.pc = "raised",
                               !.outcome = "http_error"]
              ELSE [cli EXCEPT !.requests = reqs, !.pc = "returned",
                               !.outcome = "body"]
  /\ UNCHANGED <<orch, sqlvars, runvars, wkvars, apivars>>

NextClients ==
  \/ li_get_call
  \/ \E status \in ClientStatuses : li_get_request(status)
  \/ ttk_get_call
  \/ \E status \in ClientStatuses : ttk_get_request(status)

SpecClients == InitClients /\ [][NextClients]_vars

\* C26: in the LinkedIn and TikTok integrations too, an HTTP 429 is retried
\* with backoff up to the attempt budget: a call that raised on a 429 has
\* issued MaxAttempts requests and slept before each retry.
CE_C26 ==
  (/\ cli.pc = "raised"
   /\ cli.outcome = "http_error"
   /\ cli.requests[Len(cli.requests)] = 429)
  => /\ Len(cli.requests) = MaxAttempts
     /\ Len(cli.sleeps) = MaxAttempts - 1


(***************************************************************************)
(* Part VI.  The page-level weekly flows of the four integrations          *)
(***************************************************************************)
\* the keys of a Python dict filled by assigning ks[1], ks[2], ... in turn:
\* each key once, in the order of its first insertion
RECURSIVE dict_keys(_)
dict_keys(ks) ==
  IF ks = <<>> THEN <<>>
  ELSE LET init == dict_keys(SubSeq(ks, 1, Len(ks) - 1))
           k == ks[Len(ks)]
       IN IF \E i \in DOMAIN init : init[i] = k THEN init ELSE Append(init, k)

\* the value a dict filled from pts by `dict[p.end] = p.data` holds for a key
\* present in it: the data of the last point with that end
dict_value(pts, end) ==
  pts[CHOOSE i \in DOMAIN pts :
        /\ pts[i].end = end
        /\ \A j \in DOMAIN pts : pts[j].end = end => j <= i].data

\* per_day / by_day: the fetched points as a dict keyed by day, as a
\* sequence of its items
per_day_items(pts) ==
  LET ks == dict_keys([i \in DOMAIN pts |-> pts[i].end])
  IN [i \in DOMAIN ks |-> [end |-> ks[i], data |-> dict_value(pts, ks[i])]]

\* by_iso_week.values(): the entries of the reducer's dict in insertion order
by_iso_week_values(items) ==
  LET by_iso_week == latest_by_iso_week(items)
      ks == dict_keys([i \in DOMAIN items |-> IsoWeek(items[i].end)])
  IN [i \in DOMAIN ks |-> by_iso_week[ks[i]]]

\* for fila in filas: upsert_estadistica_pagina_semanal(con, plataforma, id, fila)
RECURSIVE upsert_filas(_, _, _, _)
upsert_filas(st, plataforma, pagina_id, filas) ==
  IF filas = <<>> THEN st
  ELSE upsert_filas(exec_upsert_semanal(st, fila_row(plataforma, pagina_id, Head(filas))),
                    plataforma, pagina_id, Tail(filas))

\* the record of one run of a weekly flow: the days fetched and the
\* fecha_corte of every weekly upsert it made, in order
FlowCall(op, plataforma, pts, filas) ==
  [ op |-> op, plataforma |-> plataforma,
    days |-> { pts[i].end : i \in DOMAIN pts },
    calls |-> [i \in DOMAIN filas |-> filas[i].fecha_corte] ]

\* the `fila` dicts ingest_page_weekly of fb_ingest.py upserts: one per key of
\* by_week, which is keyed by the end date of each value
fb_page_filas(values) ==
  LET by_week == per_day_items(values)
  IN [i \in DOMAIN by_week |->
        [ fecha_corte |-> by_week[i].end, impresiones |-> 0,
          alcance |-> 0, video_views |-> 0,
          fans_total |-> by_week[i].data ]]

\* the `fila` dicts ingest_account_weekly of ig_ingest.py upserts: one per
\* entry of by_iso_week
ig_account_filas(values) ==
  LET entries == by_iso_week_values(per_day_items(values))
  IN [i \in DOMAIN entries |->
        [ fecha_corte |-> entries[i].fecha, impresiones |-> 0,
          alcance |-> entries[i].data, video_views |-> 0,
          fans_total |-> entries[i].data ]]

\* ingest_page_weekly() of fb_ingest.py, for the values of page_fans:
\* by_week is keyed by the end date of each value, and every key is upserted
ingest_page_weekly(pagina_id, values) ==
  /\ nops < MaxWeeklyOps
  /\ LET by_week == per_day_items(values)
         filas == fb_page_filas(values)
     IN /\ points' = values
        /\ byweek' = by_week
        /\ semanal' = upsert_filas(semanal, "facebook", pagina_id, filas)
        /\ wlast' = FlowCall("ingest_page_weekly", "facebook", values, filas)
  /\ nops' = nops + 1
  /\ UNCHANGED <<segmentos, modulo, store, last, runvars, apivars, orchvars>>

\* ingest_account_weekly() of ig_ingest.py for an arbitrary payload of daily
\* points: per_day, the reducer, one upsert per entry
ig_ingest_account_weekly(pagina_id, values) ==
  /\ nops < MaxWeeklyOps
  /\ LET per_day == per_day_items(values)
         filas == ig_account_filas(values)
     IN /\ points' = values
        /\ byweek' = latest_by_iso_week(per_day)
        /\ semanal' = upsert_filas(semanal, "instagram", pagina_id, filas)
        /\ wlast' = FlowCall("ig_ingest_account_weekly", "instagram", values, filas)
  /\ nops' = nops + 1
  /\ UNCHANGED <<segmentos, modulo, store, last, runvars, apivars, orchvars>>

\* ingest_account_weekly() of linkedin_ingest.py: by_day, by_week with
\* `d >= by_week[(y, w)]["fecha"]`, one upsert per entry
li_ingest_account_weekly(pagina_id, elements) ==
  /\ nops < MaxWeeklyOps
  /\ LET by_day == per_day_items(elements)
         entries == by_iso_week_values(by_day)
         filas == [i \in DOMAIN entries |->
                     [ fecha_corte |-> entries[i].fecha, impresiones |-> 0,
                       alcance |-> 0, video_views |-> 0,
                       fans_total |-> entries[i].data ]]
     IN /\ points' = elements
        /\ byweek' = latest_by_iso_week(by_day)
        /\ semanal' = upsert_filas(semanal, "linkedin", pagina_id, filas)
        /\ wlast' = FlowCall("li_ingest_account_weekly", "linkedin", elements, filas)
  /\ nops' = nops + 1
  /\ UNCHANGED <<segmentos, modulo, store, last, runvars, apivars, orchvars>>

\* ingest_account_weekly() of tikttok_ingest.py: per_day, by_iso_week, one
\* upsert per entry with impresiones = views and alcance = 0
ttk_ingest_account_weekly(pagina_id, values) ==
  /\ nops < MaxWeeklyOps
  /\ LET per_day == per_day_items(values)
         entries == by_iso_week_values(per_day)
         filas == [i \in DOMAIN entries |->
                     [ fecha_corte |-> entries[i].fecha,
                       impresiones |-> entries[i].data,
                       alcance |-> 0, video_views |-> entries[i].data,
                       fans_total |-> entries[i].data ]]
     IN /\ points' = values
        /\ byweek' = latest_by_iso_week(per_day)
        /\ semanal' = upsert_filas(semanal, "tiktok", pagina_id, filas)
        /\ wlast' = FlowCall("ttk_ingest_account_weekly", "tiktok", values, filas)
  /\ nops' = nops + 1
  /\ UNCHANGED <<segmentos, modulo, store, last, runvars, apivars, orchvars>>

\* one run of one flow on an empty table
InitWeeklyFlows ==
  /\ modulo = "fb_sql"
  /\ store = {}
  /\ last = NoCall
  /\ nops = MaxWeeklyOps - 1
  /\ RunIdle
  /\ ApiIdle
  /\ WkIdle

NextWeeklyFlows ==
  \E values \in SeqsUpTo(Points, MaxPoints) :
    \/ ingest_page_weekly("pg1", values)
    \/ ig_ingest_account_weekly("ig1", values)
    \/ li_ingest_account_weekly("org1", values)
    \/ ttk_ingest_account_weekly("biz1", values)

SpecWeeklyFlows == InitWeeklyFlows /\ [][NextWeeklyFlows]_vars

\* C23: in one run, for each platform, the page-level weekly flow makes at
\* most one weekly upsert per ISO (year, week) of the fetched points.
CE_C23 ==
  wlast.op \in {"ingest_page_weekly", "ig_ingest_account_weekly",
                "li_ingest_account_weekly", "ttk_ingest_account_weekly"}
  => \A i, j \in DOMAIN wlast.calls :
       IsoWeek(wlast.calls[i]) = IsoWeek(wlast.calls[j]) => i = j

\* the flows that reduce by ISO week do make at most one upsert per week
WeeklyFlowsReduced ==
  wlast.op \in {"ig_ingest_account_weekly", "li_ingest_account_weekly",
                "ttk_ingest_account_weekly"}
  => \A i, j \in DOMAIN wlast.calls :
       IsoWeek(wlast.calls[i]) = IsoWeek(wlast.calls[j]) => i = j


(***************************************************************************)
(* Part VII.  main() of fb_ingest.py and of ig_ingest.py: the three        *)
(* ingestion steps in order, each with the exception handlers of its code  *)
(***************************************************************************)
MainPlatforms == {"facebook", "instagram"}

\* PAGE_ID / IG_USER_ID
MainPage(platform) == IF platform = "facebook" THEN "pg1" ELSE "ig1"

\* the posts (media) the listing yields, oldest first
OrchPosts == <<"e1", "e2">>

\* the day a media item was created (its "timestamp")
CreatedDay(post) == IF post = "e1" THEN 1 ELSE 2

\* the environments of a run: every token variable set, or none
MainEnvs ==
  { [ACCESS_TOKEN |-> "", ACCESS_TOKEN_FB |-> "tok_fb", ACCESS_TOKEN_IG |-> "tok_ig"],
    [ACCESS_TOKEN |-> "", ACCESS_TOKEN_FB |-> "", ACCESS_TOKEN_IG |-> ""] }

\* ACCESS_TOKEN = os.getenv("ACCESS_TOKEN_FB") / os.getenv("ACCESS_TOKEN_IG"),
\* passed as access_token= by fb_get_fb / ig_get
ModuleToken(platform, environ) ==
  IF platform = "facebook" THEN environ.ACCESS_TOKEN_FB ELSE environ.ACCESS_TOKEN_IG

\* variant: every call site is inside try/except RuntimeError
Catches_all(platform, call) == TRUE

\* whether the call site of a fetch is inside a try/except RuntimeError (or
\* Exception) of the orchestrator
Catches(platform, call) ==
  IF call = "listing" THEN FALSE
  ELSE IF call = "reactions" THEN TRUE
  ELSE IF call = "insights" THEN platform = "instagram"
  ELSE IF call = "page_weekly" THEN platform = "instagram"
  ELSE TRUE

\* the outcome of one fb_get made by the orchestrator: RuntimeError for a
\* missing credential whatever the upstream does, else the body or the
\* RuntimeError of an upstream failure
Fetch(ok) ==
  IF pick_token(explicit, env) = "" THEN "missing_credential"
  ELSE IF ok THEN "ok" ELSE "upstream_error"

StartOrch(platform) ==
  [ pc |-> "start", platform |-> platform, todo |-> <<>>, view |-> {},
    calls |-> <<>>, payloads |-> <<>>, pubs |-> <<>>, ingested |-> <<>>,
    failed |-> {}, completed |-> {}, warnings |-> <<>>, error |-> "none",
    cause |-> "none", wk_calls |-> <<>> ]

InitMain ==
  /\ SqlIdle
  /\ cli = NoCli
  /\ orch \in { StartOrch(platform) : platform \in MainPlatforms }
  /\ env \in MainEnvs
  /\ explicit = ModuleToken(orch.platform, env)
  /\ upstream = <<>>
  /\ caller = "none"
  /\ fb_pc = "idle"
  /\ attempt = 0
  /\ requests = <<>>
  /\ sleeps = <<>>
  /\ result = None
  /\ pag_pc = "idle"
  /\ data = None
  /\ pos = 1
  /\ yielded = <<>>

\* print(f"[WARN] ...") in an except clause
Warn(o, call, entity, err) ==
  [o EXCEPT !.warnings = Append(@, [call |-> call, entity |-> entity, error |-> err])]

\* an exception leaves main(): the open transaction, if any, is rolled back
Abort(o, call, err) ==
  [o EXCEPT !.pc = "aborted", !.error = err, !.cause = call, !.view = {}]

\* a fetch that did not return: handled where its call site catches
Handle(o, call, entity, err) ==
  IF Catches(o.platform, call) THEN Warn(o, call, entity, err) ELSE Abort(o, call, err)

\* the metrics dict `m` / `metricas` built for a post
PostMetrics(platform, rx_ok, ins_ok) ==
  IF platform = "facebook"
  THEN [mA EXCEPT !.me_gusta = IF rx_ok THEN 4 ELSE 0,
                  !.me_encanta = IF rx_ok THEN 3 ELSE 0]
  ELSE [mA EXCEPT !.alcance = IF ins_ok THEN 80 ELSE 0,
                  !.guardados = IF ins_ok THEN 1 ELSE 0,
                  !.impresiones = 0, !.ctr = None]

\* for dia in days: upsert_metricas_publicacion_diaria(con, ..., dia, m)
RECURSIVE upsert_days(_, _, _, _)
upsert_days(view, e, days, m) ==
  IF days = <<>> THEN view
  ELSE LET dia == Head(days)
           prev == ultimo_registro_prev("fb_sql", view, e[1], e[2], e[3], dia)
           row == row_fb_sql(e[1], e[2], e[3], dia, m, prev)
       IN upsert_days(exec_upsert("fb_sql", view, row), e, Tail(days), m)

\* ingest_posts / ingest_media up to the first page of the listing:
\* `with conn() as con: for p in get_posts_since()`
get_posts_since(ok) ==
  /\ orch.pc = "start"
  /\ LET out == Fetch(ok)
         o1 == [orch EXCEPT !.view = store]
     IN orch' = IF out = "ok"
                  THEN [o1 EXCEPT !.pc = "posts", !.todo = OrchPosts]
                  ELSE LET o2 == Handle(o1, "listing", "", out)
                       IN IF o2.pc = "aborted" THEN o2
                          ELSE [o2 EXCEPT !.pc = "posts"]
  /\ UNCHANGED <<cli, sqlvars, runvars, wkvars, apivars>>

\* one iteration of the loop of ingest_posts (fb_ingest.py 367-412) or of
\* ingest_media (ig_ingest.py 151-204) for the next post
ingest_post(rx_ok, ins_ok, values) ==
  /\ orch.pc = "posts"
  /\ orch.todo # <<>>
  /\ LET post == Head(orch.todo)
         e == <<orch.platform, MainPage(orch.platform), post>>
         o1 == [orch EXCEPT !.pubs = Append(@, post),
                            !.payloads = IF orch.platform = "facebook"
                                         THEN Append(@, values) ELSE @]
         rx == IF orch.platform = "facebook" THEN Fetch(rx_ok) ELSE "ok"
         o2 == IF rx = "ok" THEN o1
               ELSE Handle([o1 EXCEPT !.failed = @ \cup {post}], "reactions", post, rx)
         ins == Fetch(ins_ok)
         o3 == IF o2.pc = "aborted" \/ ins = "ok" THEN o2
               ELSE Handle([o2 EXCEPT !.failed = @ \cup {post}], "insights", post, ins)
         days == IF orch.platform = "facebook"
                 THEN IF ins = "ok"
                      THEN sorted({ values[i] : i \in DOMAIN values })
                      ELSE <<>>
                 ELSE <<CreatedDay(post)>>
         m == PostMetrics(orch.platform, rx = "ok", ins = "ok")
     IN orch' = IF o3.pc = "aborted" THEN o3
                ELSE [o3 EXCEPT
                        !.view = upsert_days(@, e, days, m),
                        !.calls = @ \o [i \in DOMAIN days |->
                                          [post |-> post, fecha |-> days[i]]],
                        !.ingested = Append(@, post),
                        !.todo = Tail(@)]
  /\ UNCHANGED <<cli, sqlvars, runvars, wkvars, apivars>>

\* the listing is exhausted: the `with conn()` block ends and commits
ingest_posts_exit ==
  /\ orch.pc = "posts"
  /\ orch.todo = <<>>
  /\ store' = orch.view
  /\ orch' = [orch EXCEPT !.pc = "weekly", !.view = {},
                          !.completed = @ \cup {"posts"}]
  /\ UNCHANGED <<cli, modulo, last, nops, runvars, wkvars, apivars>>

\* the second step of main(): ingest_page_weekly of fb_ingest.py or
\* ingest_account_weekly of ig_ingest.py (whose insights requests succeed or
\* fail together here)
main_page_weekly(ok, values) ==
  /\ orch.pc = "weekly"
  /\ LET out == Fetch(ok)
         o1 == IF out = "ok" THEN orch
               ELSE Handle(orch, "page_weekly", MainPage(orch.platform), out)
         pts == IF out = "ok" THEN values ELSE <<>>
         filas == IF orch.platform = "facebook"
                  THEN fb_page_filas(pts) ELSE ig_account_filas(pts)
     IN IF o1.pc = "aborted"
        THEN orch' = o1 /\ UNCHANGED semanal
        ELSE /\ semanal' = upsert_filas(semanal, orch.platform,
                                        MainPage(orch.platform), filas)
             /\ orch' = [o1 EXCEPT
                           !.pc = "segments",
                           !.wk_calls = [i \in DOMAIN filas |-> filas[i].fecha_corte],
                           !.completed = @ \cup {"weekly"}]
  /\ UNCHANGED <<cli, sqlvars, runvars, points, byweek, segmentos, wlast, apivars>>

\* the breakdowns requested by ingest_audience_segments_weekly, in order
SegmentDimSeq == << <<"genero", "F">>, <<"pais", "EC">>, <<"ciudad", "Quito">> >>

\* the day of the snapshot the segment rows carry
SegmentDay == 28

\* the fetches of the breakdowns in turn: a failed one is handled at its call
\* site; the rows of the others are collected
RECURSIVE fetch_breakdowns(_, _, _)
fetch_breakdowns(o, dims, okdims) ==
  IF dims = <<>> \/ o.pc = "aborted" THEN o
  ELSE LET out == Fetch(Head(dims) \in okdims)
       IN fetch_breakdowns(
            IF out = "ok" THEN o ELSE Handle(o, "segments", Head(dims)[1], out),
            Tail(dims), okdims)

RECURSIVE insert_segmentos(_, _, _, _)
insert_segmentos(st, platform, dims, okdims) ==
  IF dims = <<>> THEN st
  ELSE insert_segmentos(
         IF Fetch(Head(dims) \in okdims) = "ok"
         THEN exec_insert_segmento(st, segmento_row(platform, MainPage(platform),
                                                    SegmentDay, Head(dims), 10))
         ELSE st,
         platform, Tail(dims), okdims)

\* the third step of main(): ingest_audience_segments_weekly
main_audience_segments(okdims) ==
  /\ orch.pc = "segments"
  /\ LET o1 == fetch_breakdowns(orch, SegmentDimSeq, okdims)
     IN IF o1.pc = "aborted"
        THEN orch' = o1 /\ UNCHANGED segmentos
        ELSE /\ segmentos' = insert_segmentos(segmentos, orch.platform,
                                              SegmentDimSeq, okdims)
             /\ orch' = [o1 EXCEPT !.pc = "done",
                                   !.completed = @ \cup {"segments"}]
  /\ UNCHANGED <<cli, sqlvars, runvars, points, byweek, semanal, wlast, apivars>>

\* the posts step alone, with every payload of up to MaxPayload value points
NextPosts ==
  \/ \E ok \in BOOLEAN : get_posts_since(ok)
  \/ \E rx_ok \in BOOLEAN, ins_ok \in BOOLEAN, values \in SeqsUpTo(Dates, MaxPayload) :
       ingest_post(rx_ok, ins_ok, values)
  \/ ingest_posts_exit

SpecPosts == InitMain /\ [][NextPosts]_vars

\* the whole of main(), with payloads of at most one value point
NextMain ==
  \/ \E ok \in BOOLEAN : get_posts_since(ok)
  \/ \E rx_ok \in BOOLEAN, ins_ok \in BOOLEAN, values \in SeqsUpTo(Dates, 1) :
       ingest_post(rx_ok, ins_ok, values)
  \/ ingest_posts_exit
  \/ \E ok \in BOOLEAN, values \in SeqsUpTo(Points, 1) : main_page_weekly(ok, values)
  \/ \E okdims \in SUBSET SegmentDims : main_audience_segments(okdims)

SpecMain == InitMain /\ [][NextMain]_vars

\* C27: the Facebook post orchestrator upserts the daily records of each post
\* in strictly ascending date order, whatever the order of the value points
\* in the payload, and all the records of one post before any record of the
\* next post.
T_C27 ==
  (orch.pc # "idle" /\ orch.platform = "facebook")
  => \A i, j \in DOMAIN orch.calls :
       i < j =>
         /\ orch.calls[i].post = orch.calls[j].post
              => orch.calls[i].fecha < orch.calls[j].fecha
         /\ \A k \in DOMAIN orch.calls :
              (i < k /\ k < j /\ orch.calls[i].post = orch.calls[j].post)
                => orch.calls[k].post = orch.calls[i].post

\* a run whose first payload came latest day first, and which upserted two
\* records of the first post and then a record of the second
W_C27 ==
  /\ orch.pc # "idle"
  /\ orch.platform = "facebook"
  /\ Len(orch.payloads) = 2
  /\ \E i, j \in DOMAIN orch.payloads[1] :
       i < j /\ orch.payloads[1][i] > orch.payloads[1][j]
  /\ Len(orch.calls) >= 3
  /\ orch.calls[1].post = "e1"
  /\ orch.calls[2].post = "e1"
  /\ orch.calls[Len(orch.calls)].post = "e2"

\* C21: in a post ingestion run, a fetch failure concerning one entity (its
\* reaction breakdown or its insights) is caught and replaced by a default
\* value: the run is not aborted by it, and when the step ends every listed
\* post has been ingested.
CE_C21 ==
  (orch.pc # "idle" /\ orch.failed # {})
  => /\ ~(orch.pc = "aborted" /\ orch.cause \in {"reactions", "insights"})
     /\ "posts" \in orch.completed => Len(orch.ingested) = Len(OrchPosts)

\* the Instagram media step does what the claim says: a failed insights fetch
\* never aborts the run
IgEntityFailureCaught ==
  (orch.pc # "idle" /\ orch.platform = "instagram")
  => ~(orch.pc = "aborted" /\ orch.cause \in {"reactions", "insights"})

\* C22: when no token resolves, the run is fatal: no ingestion step completes
\* normally, nothing is written to the store, and the missing credential is
\* never turned into a warning; the run aborts on the missing credential.
T_C22 ==
  (orch.pc # "idle" /\ pick_token(explicit, env) = "")
  => /\ orch.completed = {}
     /\ orch.warnings = <<>>
     /\ store = {} /\ semanal = {} /\ segmentos = {}
     /\ orch.pc \in {"start", "aborted"}
     /\ orch.pc = "aborted" => orch.error = "missing_credential"

W_C22 ==
  /\ orch.pc = "aborted"
  /\ pick_token(explicit, env) = ""
  /\ orch.error = "missing_credential"
  /\ orch.cause = "listing"


(***************************************************************************)
(* Part VIII.  The daily upsert among rows of other platforms, pages and   *)
(* entities                                                                *)
(***************************************************************************)
\* entities that differ from the first in exactly one key column
FrameEntities ==
  { <<"facebook", "pg1", "e1">>,
    <<"facebook", "pg1", "e2">>,
    <<"facebook", "pg2", "e1">>,
    <<"instagram", "pg1", "e1">> }

\* the metric maps upserted for an entity: both for the first entity, one for
\* the others
FrameInputs(e) == IF e = <<"facebook", "pg1", "e1">> THEN {mA, mB} ELSE {mA}

NextSqlFrame ==
  \E e \in FrameEntities, f \in Dates : \E m \in FrameInputs(e) :
    upsert_metricas_publicacion_diaria(e, f, m)

SpecSqlFrame == InitSql /\ [][NextSqlFrame]_vars

\* the full key of a stored row
RowKey(r) == <<r.plataforma, r.pagina_id, r.publicacion_id, r.fecha_descarga>>

\* C31: an upsert for key (platform, page, entity, date) creates or changes
\* only the row with exactly that key: every other daily row and every row of
\* the weekly and audience tables is unchanged, and the previous row its
\* deltas are computed against is a row of the same platform, page and entity.
T_C31 ==
  [][ nops' = nops + 1 =>
        LET key == Append(last'.entity, last'.fecha) IN
        /\ { r \in store : RowKey(r) # key } = { r \in store' : RowKey(r) # key }
        /\ semanal' = semanal
        /\ segmentos' = segmentos
        /\ \A r \in RowsAt(store', last'.entity, last'.fecha) :
             \A fld \in DeltaFields(r) :
               r["delta_" \o fld] =
                 r[fld] - LatestValue(Earlier(store, last'.entity, last'.fecha), fld) ]_vars

\* an upsert of an entity without earlier rows, made while earlier rows with
\* other values are stored for the same entity id on another page, for the
\* same id on another platform and for another entity of the same page: the
\* new row's delta is its raw value and the other rows are still there
W_C31 ==
  /\ last.op = "upsert"
  /\ last.entity = <<"facebook", "pg1", "e1">>
  /\ last.m = mB
  /\ Earlier(store, last.entity, last.fecha) = {}
  /\ \E r \in RowsAt(store, last.entity, last.fecha) :
       r.delta_visualizaciones = r.visualizaciones
  /\ \E other \in FrameEntities \ {last.entity} :
       \E q \in Earlier(store, other, last.fecha) :
         /\ q.visualizaciones # 140
         /\ other[3] = "e1"

\* C32: the deltas of later rows are never recomputed: an upsert for date d1
\* leaves every stored row of the same entity with a date d2 > d1 as it was,
\* delta columns included.
T_C32 ==
  [][ nops' = nops + 1 =>
        \A r \in RowsOf(store, last'.entity) :
          r.fecha_descarga > last'.fecha => r \in store' ]_vars

\* an earlier day was upserted after a later day of the same entity was
\* stored: the later row's delta is not its value minus the earlier day's
W_C32 ==
  /\ last.op = "upsert"
  /\ last.outcome = "ok"
  /\ \E r \in RowsOf(store, last.entity) :
       /\ r.fecha_descarga > last.fecha
       /\ r.delta_visualizaciones #
            r.visualizaciones
              - LatestValue(Earlier(store, last.entity, r.fecha_descarga), "visualizaciones")


(***************************************************************************)
(* Part IX.  The post flows of Instagram, TikTok and LinkedIn: one daily   *)
(* record per entity, dated by the entity's publication day                *)
(***************************************************************************)
\* the page id each flow passes to the upsert: ig_id from ensure_ig_user_id,
\* ORG_URN (checked by main), TTK_BUSINESS_ID = os.getenv(...) (None when the
\* variable is not set; never checked)
MediaPages(platform) ==
  IF platform = "instagram" THEN {"ig1"}
  ELSE IF platform = "linkedin" THEN {"org1"}
  ELSE {"biz1", NULL}

MediaPlatforms == {"instagram", "tiktok", "linkedin"}

\* the statements of one run: for each listed entity one upsert dated by its
\* publication day
RECURSIVE media_upserts(_, _, _, _, _)
media_upserts(view, platform, pagina_id, posts, m) ==
  IF posts = <<>> THEN view
  ELSE media_upserts(
         upsert_days(view, <<platform, pagina_id, Head(posts)>>,
                     <<CreatedDay(Head(posts))>>, m),
         platform, pagina_id, Tail(posts), m)

\* one run of ingest_media (ig_ingest.py, tikttok_ingest.py) or of
\* ingest_posts_and_metrics (linkedin_ingest.py) over the listed entities,
\* inside one `with conn()` block
ingest_media(platform, pagina_id, m) ==
  /\ nops < MaxOps
  /\ \E outcome \in InsertOutcomes([pagina_id |-> pagina_id, plataforma |-> platform,
                                    publicacion_id |-> "e1"]) :
       /\ store' = IF outcome = "ok"
                   THEN media_upserts(store, platform, pagina_id, OrchPosts, m)
                   ELSE store
       /\ last' = [ op |-> "ingest_media", entity |-> <<platform, pagina_id, "">>,
                    fecha |-> 0, m |-> m, hit |-> FALSE, rep |-> FALSE,
                    stmts |-> <<>>, outcome |-> outcome ]
  /\ nops' = nops + 1
  /\ UNCHANGED <<modulo>>
  /\ UNCHANGED <<apivars, orchvars, runvars, wkvars>>

NextMediaFlows ==
  \E platform \in MediaPlatforms, m \in RunInputs :
    \E pagina_id \in MediaPages(platform) : ingest_media(platform, pagina_id, m)

InitMediaFlows ==
  /\ modulo = "fb_sql"
  /\ store = {}
  /\ last = NoCall
  /\ nops = 0
  /\ ApiIdle
  /\ RunIdle
  /\ WkIdle

SpecMediaFlows == InitMediaFlows /\ [][NextMediaFlows]_vars

\* the stored rows of the entity a row belongs to
SameEntity(r) ==
  { q \in store : /\ q.plataforma = r.plataforma
                  /\ q.pagina_id = r.pagina_id
                  /\ q.publicacion_id = r.publicacion_id }

\* C33: in the Instagram, TikTok and LinkedIn post flows, with publication
\* dates that do not change between runs, after any number of runs each
\* entity has exactly one stored daily row and every stored delta equals the
\* raw value of the latest run.
CE_C33 ==
  \A r \in store :
    /\ SameEntity(r) = {r}
    /\ \A fld \in DeltaFields(r) : r["delta_" \o fld] = r[fld]

\* with a page id that is set, the flows do keep one row per entity whose
\* deltas are the raw values
MediaFlowsOneRow ==
  \A r \in store :
    r.pagina_id # NULL =>
      /\ SameEntity(r) = {r}
      /\ \A fld \in DeltaFields(r) : r["delta_" \o fld] = r[fld]


(***************************************************************************)
(* The weekly reduction as a function of the set of points                 *)
(***************************************************************************)
\* the rearrangements of 1..n
Perms(n) == { f \in [1..n -> 1..n] : \A a, b \in 1..n : f[a] = f[b] => a = b }

\* the representatives of a reduction as input points, in every order
RepresentativeSeqs(bw) ==
  LET ks == sorted({ bw[k].fecha : k \in DOMAIN bw })
      entry(fecha) == CHOOSE k \in DOMAIN bw : bw[k].fecha = fecha
  IN { [i \in 1..Len(ks) |->
          [end |-> ks[f[i]], data |-> bw[entry(ks[f[i]])].data]]
       : f \in Perms(Len(ks)) }

DistinctDates(pts) ==
  \A i, j \in DOMAIN pts : pts[i].end = pts[j].end => i = j

\* C34: when all input dates are distinct, every permutation of the points
\* reduces to the same mapping from ISO (year, week) to representative, and
\* reducing the representatives again gives that mapping.
T_C34 ==
  (wlast.op = "latest_by_iso_week" /\ DistinctDates(points))
  => /\ \A f \in Perms(Len(points)) :
          latest_by_iso_week([i \in 1..Len(points) |-> points[f[i]]]) = byweek
     /\ \A reps \in RepresentativeSeqs(byweek) :
          latest_by_iso_week(reps) = byweek

\* three points of distinct days, the two of week (2024, 5) given latest
\* first, and one of week (2024, 4)
W_C34 ==
  /\ wlast.op = "latest_by_iso_week"
  /\ Len(points) = 3
  /\ DistinctDates(points)
  /\ points[1].end = 29 /\ points[2].end = 28 /\ points[3].end = 27
  /\ DOMAIN byweek = {<<2024, 4>>, <<2024, 5>>}
  /\ byweek[<<2024, 5>>].fecha = 29


(***************************************************************************)
(* Part X.  LinkedIn offset pagination (linkedin_api.paginate_elements)    *)
(***************************************************************************)
\* the elements the upstream holds are numbered 1..n; the page requested with
\* (start, count) carries those numbered start+1 .. start+count
li_page(n, start, count) ==
  [ i \in 1..(IF n <= start THEN 0
              ELSE IF n - start < count THEN n - start ELSE count) |-> start + i ]

\* variant: `start + count > int(total)`
li_last_page_gt(total, start, count, items) ==
  IF total = None THEN items = <<>>
  ELSE start + count > total[1]

\* lines 65-71: whether the loop breaks after the page just consumed
li_last_page(total, start, count, items) ==
  IF total = None THEN items = <<>>
  ELSE start + count >= total[1]

\* a call about to be made: the count argument, the number of elements the
\* upstream holds, and the paging.total it reports (None when it reports none)
LiPaginateCalls ==
  { [ pc |-> "fetch", client |-> "paginate_elements", count |-> c, n |-> n,
      total |-> t, start |-> 0, starts |-> <<>>, items |-> <<>>, pos |-> 1,
      yielded |-> <<>> ]
    : c \in {1, 2}, n \in 0..MaxElems,
      t \in {None} \cup { Some(x) : x \in 0..MaxElems } }

InitLiPaginate ==
  /\ SqlIdle
  /\ FbIdle
  /\ orch = NoOrch
  /\ cli \in LiPaginateCalls

\* lines 59-62: js = li_get(path, q, ...) returned; items = js["elements"]
paginate_elements_fetch ==
  /\ cli.pc = "fetch"
  /\ cli.client = "paginate_elements"
  /\ cli' = [cli EXCEPT !.pc = "yield",
                        !.starts = Append(@, cli.start),
                        !.items = li_page(cli.n, cli.start, cli.count),
                        !.pos = 1]
  /\ UNCHANGED <<orch, sqlvars, runvars, wkvars, apivars>>

\* line 61: li_get raised LIError, which leaves the generator
paginate_elements_error ==
  /\ cli.pc = "fetch"
  /\ cli.client = "paginate_elements"
  /\ cli' = [cli EXCEPT !.pc = "error", !.starts = Append(@, cli.start)]
  /\ UNCHANGED <<orch, sqlvars, runvars, wkvars, apivars>>

\* lines 63-64: yield the next element of the page
paginate_elements_yield ==
  /\ cli.pc = "yield"
  /\ cli.client = "paginate_elements"
  /\ cli.pos <= Len(cli.items)
  /\ cli' = [cli EXCEPT !.yielded = Append(@, cli.items[cli.pos]),
                        !.pos = @ + 1]
  /\ UNCHANGED <<orch, sqlvars, runvars, wkvars, apivars>>

\* lines 65-73: the page is consumed; break, or start += count and loop
paginate_elements_advance ==
  /\ cli.pc = "yield"
  /\ cli.client = "paginate_elements"
  /\ cli.pos > Len(cli.items)
  /\ cli' = IF li_last_page(cli.total, cli.start, cli.count, cli.items)
              THEN [cli EXCEPT !.pc = "done"]
              ELSE [cli EXCEPT !.pc = "fetch", !.start = @ + cli.count]
  /\ UNCHANGED <<orch, sqlvars, runvars, wkvars, apivars>>

NextLiPaginate ==
  \/ paginate_elements_fetch
  \/ paginate_elements_error
  \/ paginate_elements_yield
  \/ paginate_elements_advance

\* the consumer iterates the generator to its end
SpecLiPaginateFair == InitLiPaginate /\ [][NextLiPaginate]_vars /\ WF_vars(NextLiPaginate)

\* ceil(a / b)
CeilDiv(a, b) == (a + b - 1) \div b

\* the elements of the pages fetched so far, in order
LiFetched ==
  LET upto == IF cli.pc = "fetch" \/ cli.starts = <<>> THEN cli.start
              ELSE cli.start + cli.count
      m == IF cli.n < upto THEN cli.n ELSE upto
  IN [i \in 1..m |-> i]

LiPaginateSafe ==
  /\ \A i \in DOMAIN cli.starts : cli.starts[i] = (i - 1) * cli.count
  /\ IsPrefix(cli.yielded, LiFetched)
  /\ cli.pc = "done" =>
       /\ cli.yielded = LiFetched
       /\ IF cli.total # None
          THEN Len(cli.starts) =
                 IF CeilDiv(cli.total[1], cli.count) < 1 THEN 1
                 ELSE CeilDiv(cli.total[1], cli.count)
          ELSE /\ cli.items = <<>>
               /\ Len(cli.starts) = CeilDiv(cli.n, cli.count) + 1

\* C35: paginate_elements requests start = 0, count, 2*count, ... in order;
\* with paging.total = T it stops after the first page with
\* start + count >= T, having issued max(1, ceil(T/count)) requests; with no
\* total it stops after the first page without elements; it yields every
\* element of every fetched page in order, and it terminates.
T_C35 ==
  /\ [](cli.client = "paginate_elements" => LiPaginateSafe)
  /\ <>(cli.pc \in {"done", "error"})

\* a run with count 2 against an upstream that holds 3 elements and reports
\* total 3: two requests, all three elements yielded
W_C35 ==
  /\ cli.pc = "done"
  /\ cli.client = "paginate_elements"
  /\ cli.count = 2
  /\ cli.total = Some(3)
  /\ cli.starts = <<0, 2>>
  /\ cli.yielded = <<1, 2, 3>>


(***************************************************************************)
(* Part XI.  TikTok cursor pagination (tikttok_ingest.ttk_paginate)        *)
(***************************************************************************)
\* JSON values as Python sees them: None (also an absent key), booleans
\* (which compare equal to 0 and 1), integers and strings; numbers are kept
\* as their decimal text
PyNone == [t |-> "none", v |-> ""]
PyBool(b) == [t |-> "bool", v |-> IF b THEN "1" ELSE "0"]
PyInt(n) == [t |-> "int", v |-> ToString(n)]
PyStr(x) == [t |-> "str", v |-> x]

\* bool(x)
Truthy(x) ==
  IF x.t = "none" THEN FALSE
  ELSE IF x.t = "str" THEN x.v # ""
  ELSE x.v # "0"

\* a or b
PyOr(a, b) == IF Truthy(a) THEN a ELSE b

\* x in (0, False, None): membership compares with ==
InZeroFalseNone(x) ==
  \/ x.t = "none"
  \/ x.t \in {"bool", "int"} /\ x.v = "0"

\* the `data` object of a response: cursor, next_cursor, has_more and the list
TtkPages ==
  [ cursor : {PyNone, PyStr(""), PyStr("c1")},
    next_cursor : {PyNone, PyStr("c2")},
    has_more : {PyNone, PyBool(FALSE), PyBool(TRUE), PyInt(0), PyInt(1), PyStr("")},
    items : {<<>>, <<"v1">>} ]

NoTtkPage ==
  [cursor |-> PyNone, next_cursor |-> PyNone, has_more |-> PyNone, items |-> <<>>]

\* variant: `if not cursor or not data.get("has_more")`
ttk_break_falsy(cursor, has_more) == ~Truthy(cursor) \/ ~Truthy(has_more)

\* line 60: if not cursor or data.get("has_more") in (0, False, None): break
ttk_break(cursor, has_more) == ~Truthy(cursor) \/ InZeroFalseNone(has_more)

InitTtkPaginate ==
  /\ SqlIdle
  /\ FbIdle
  /\ orch = NoOrch
  /\ cli = [ pc |-> "fetch", client |-> "ttk_paginate", cursor |-> PyNone,
             sent |-> PyNone, nreq |-> 0, page |-> NoTtkPage, prev |-> NoTtkPage,
             pos |-> 1, yielded |-> 0 ]

\* lines 52-56: `if cursor: params["cursor"] = cursor`, js = ttk_get(...)
\* returned, data and items are read
ttk_paginate_fetch(page) ==
  /\ cli.pc = "fetch"
  /\ cli.client = "ttk_paginate"
  /\ cli.nreq < MaxPages
  /\ cli' = [cli EXCEPT !.pc = "yield",
                        !.sent = IF Truthy(cli.cursor) THEN cli.cursor ELSE @,
                        !.nreq = @ + 1,
                        !.prev = cli.page,
                        !.page = page,
                        !.pos = 1]
  /\ UNCHANGED <<orch, sqlvars, runvars, wkvars, apivars>>

\* line 54: ttk_get raised RuntimeError, which leaves the generator
ttk_paginate_error ==
  /\ cli.pc = "fetch"
  /\ cli.client = "ttk_paginate"
  /\ cli.nreq < MaxPages
  /\ cli' = [cli EXCEPT !.pc = "error",
                        !.sent = IF Truthy(cli.cursor) THEN cli.cursor ELSE @,
                        !.nreq = @ + 1]
  /\ UNCHANGED <<orch, sqlvars, runvars, wkvars, apivars>>

\* lines 57-58: yield the next item of the page
ttk_paginate_yield ==
  /\ cli.pc = "yield"
  /\ cli.client = "ttk_paginate"
  /\ cli.pos <= Len(cli.page.items)
  /\ cli' = [cli EXCEPT !.pos = @ + 1, !.yielded = @ + 1]
  /\ UNCHANGED <<orch, sqlvars, runvars, wkvars, apivars>>

\* lines 59-61: the cursor of the page, then break or loop
ttk_paginate_advance ==
  /\ cli.pc = "yield"
  /\ cli.client = "ttk_paginate"
  /\ cli.pos > Len(cli.page.items)
  /\ LET cursor == PyOr(cli.page.cursor, cli.page.next_cursor)
     IN cli' = [cli EXCEPT !.cursor = cursor,
                           !.pc = IF ttk_break(cursor, cli.page.has_more)
                                  THEN "done" ELSE "fetch"]
  /\ UNCHANGED <<orch, sqlvars, runvars, wkvars, apivars>>

NextTtkPaginate ==
  \/ \E page \in TtkPages : ttk_paginate_fetch(page)
  \/ ttk_paginate_error
  \/ ttk_paginate_yield
  \/ ttk_paginate_advance

SpecTtkPaginate == InitTtkPaginate /\ [][NextTtkPaginate]_vars

\* the step that follows the last item of a page
TtkPageConsumed == cli.pc = "yield" /\ cli'.pc \in {"fetch", "done"}

\* C36 as stated: after the items of a page, a further page is requested if
\* and only if the page carries a truthy cursor (cursor or next_cursor) and a
\* truthy has_more; the next request carries that cursor; otherwise the
\* sequence ends normally.
CE_C36 ==
  [][ /\ TtkPageConsumed =>
           (cli'.pc = "fetch" <=>
              /\ Truthy(PyOr(cli.page.cursor, cli.page.next_cursor))
              /\ Truthy(cli.page.has_more))
      /\ (cli.pc = "fetch" /\ cli.nreq > 0 /\ cli'.nreq = cli.nreq + 1) =>
           cli'.sent = PyOr(cli.page.cursor, cli.page.next_cursor) ]_vars

\* C36 amended: after the items of a page, a further page is requested if and
\* only if the page carries a truthy cursor (cursor or next_cursor) and its
\* has_more is none of 0, False and None (absent); the next request carries
\* that cursor; otherwise the sequence ends normally.
T_C36 ==
  [][ /\ TtkPageConsumed =>
           (cli'.pc = "fetch" <=>
              /\ Truthy(PyOr(cli.page.cursor, cli.page.next_cursor))
              /\ ~InZeroFalseNone(cli.page.has_more))
      /\ (cli.pc = "fetch" /\ cli.nreq > 0 /\ cli'.nreq = cli.nreq + 1) =>
           cli'.sent = PyOr(cli.page.cursor, cli.page.next_cursor) ]_vars

\* a second request carrying the cursor "c2" of a first page whose has_more
\* was the empty string
W_C36 ==
  /\ cli.client = "ttk_paginate"
  /\ cli.pc = "yield"
  /\ cli.nreq = 2
  /\ cli.prev.has_more = PyStr("")
  /\ cli.prev.cursor = PyStr("")
  /\ cli.sent = PyStr("c2")


(***************************************************************************)
(* The version fallback of li_get                                          *)
(***************************************************************************)
\* C37: li_get tries the candidate versions newest month first; a 426 moves
\* on to the next older version and the first other response decides the
\* call (a status of 400 or more raises at once, anything else returns the
\* body); it issues at most 24 requests, exactly 1 when a version is given,
\* raises when every candidate answered 426, and raises before any request
\* when the token is missing.
T_C37 ==
  cli.client = "li_get" =>
    LET n == Len(cli.requests)
        final == cli.requests[n]
    IN /\ Len(cli.sent) = n
       /\ n <= MonthsBack
       /\ \A i \in 1..n : i < n => cli.requests[i] = 426
       /\ ~cli.given => \A i \in 1..n : cli.sent[i] = strftime_Ym(ThisMonth - (i - 1))
       /\ \A i \in 1..n : i > 1 => cli.sent[i] < cli.sent[i - 1]
       /\ cli.given => n <= 1
       /\ (cli.given /\ cli.pc \in {"returned", "raised"} /\ cli.token # "") => n = 1
       /\ cli.pc = "loop" => \A i \in 1..n : cli.requests[i] = 426
       /\ cli.pc = "returned" => final # 426 /\ final < 400
       /\ (cli.pc = "raised" /\ cli.outcome = "http_error") =>
            final # 426 /\ final >= 400
       /\ (cli.pc = "raised" /\ cli.outcome = "no_active_version") =>
            /\ n = (IF cli.given THEN 1 ELSE MonthsBack)
            /\ \A i \in 1..n : cli.requests[i] = 426
       /\ (n >= 1 /\ final # 426) => cli.pc \in {"returned", "raised"}
       /\ cli.token = "" =>
            /\ n = 0
            /\ cli.pc \in {"start", "raised"}
            /\ cli.pc = "raised" => cli.outcome = "missing_token"

\* two candidates answered 426 and the third, two months back, answered 200
W_C37 ==
  /\ cli.client = "li_get"
  /\ cli.pc = "returned"
  /\ cli.requests = <<426, 426, 200>>
  /\ cli.sent = <<202611, 202610, 202609>>


(***************************************************************************)
(* Part XII.  The retry of the Instagram audience fetch (ig_get_retry)     *)
(***************************************************************************)
\* retries: the default of ig_get_retry and the value fetch_breakdown passes
DefaultRetries == 3
AudienceRetries == 4

\* what one call of ig_get can do: return the body, raise the RuntimeError
\* of fb_get, or raise another exception (a timeout of requests.get).  The
\* message of fb_get is "FB <status>: <body>" and the body of the Graph API
\* is compact JSON holding "code":<n>; code 0 stands for a message without
\* an error object (missing token, persistent rate limit).  unknown says
\* whether the text holds "unknown error" in any case.
IgOk == [exc |-> "none", code |-> 0, unknown |-> FALSE]

IgRuntimeErrors ==
  { [exc |-> "RuntimeError", code |-> e[1], unknown |-> e[2]]
    : e \in { <<1, TRUE>>, <<2, FALSE>>, <<10, FALSE>>, <<100, FALSE>>,
              <<190, FALSE>>, <<200, FALSE>>, <<0, FALSE>>, <<0, TRUE>> } }

IgTimeout == [exc |-> "Timeout", code |-> 0, unknown |-> FALSE]

IgOutcomes == {IgOk, IgTimeout} \cup IgRuntimeErrors

RECURSIVE LeadingDigit(_)
LeadingDigit(n) == IF n < 10 THEN n ELSE LeadingDigit(n \div 10)

\* '"code":1' in msg or "unknown error" in msg.lower() or "An unknown error" in msg:
\* the first test is a substring test, true of every code whose decimal
\* form begins with 1
ig_retryable(e) ==
  \/ e.code > 0 /\ LeadingDigit(e.code) = 1
  \/ e.unknown

InitIgRetry ==
  /\ SqlIdle
  /\ FbIdle
  /\ orch = NoOrch
  /\ \E r \in {DefaultRetries, AudienceRetries} :
       cli = [pc |-> "start", client |-> "ig_get_retry", retries |-> r, i |-> 0,
              calls |-> <<>>, sleeps |-> <<>>, last_err |-> IgOk, raised |-> IgOk]

\* last_err = None and the entry into the for loop
ig_get_retry_call ==
  /\ cli.pc = "start"
  /\ cli' = [cli EXCEPT !.pc = "loop"]
  /\ UNCHANGED <<orch, sqlvars, runvars, wkvars, apivars>>

\* one turn of the loop: the call of ig_get and what follows it, up to the
\* next call, the return or the raise
ig_get_retry_attempt(res) ==
  /\ cli.pc = "loop"
  /\ cli.i < cli.retries
  /\ LET c1 == [cli EXCEPT !.calls = Append(@, res)] IN
     cli' = CASE res.exc = "none" -> [c1 EXCEPT !.pc = "returned"]
              [] res.exc = "Timeout" -> [c1 EXCEPT !.pc = "raised", !.raised = res]
              [] OTHER ->
                   IF ig_retryable(res)
                     THEN IF cli.i + 1 < cli.retries
                            THEN [c1 EXCEPT !.last_err = res, !.i = @ + 1,
                                            !.sleeps = Append(@, cli.i)]
                            ELSE [c1 EXCEPT !.last_err = res, !.i = @ + 1,
                                            !.sleeps = Append(@, cli.i),
                                            !.pc = "raised", !.raised = res]
                     ELSE [c1 EXCEPT !.last_err = res, !.pc = "raised",
                                     !.raised = res]
  /\ UNCHANGED <<orch, sqlvars, runvars, wkvars, apivars>>

NextIgRetry ==
  \/ ig_get_retry_call
  \/ \E res \in IgOutcomes : ig_get_retry_attempt(res)

SpecIgRetry == InitIgRetry /\ [][NextIgRetry]_vars

\* the error of the Graph API is the unknown error (code 1) or the transient
\* one (code 2), or its text says "unknown error"
MarksUnknownOrTransient(e) == e.code \in {1, 2} \/ e.unknown

\* C38: ig_get_retry calls the fetch at most `retries` times; another
\* attempt follows a failure only when its message marks an unknown or
\* transient error, any other failure is raised after that attempt; a
\* success returns at once; when every attempt failed the error raised is
\* that of the last attempt.
CE_C38 ==
  cli.client = "ig_get_retry" =>
    LET n == Len(cli.calls) IN
    /\ n <= cli.retries
    /\ \A k \in 1..n : k < n =>
         cli.calls[k].exc = "RuntimeError" /\ MarksUnknownOrTransient(cli.calls[k])
    /\ (n >= 1 /\ cli.calls[n].exc # "none" /\ ~MarksUnknownOrTransient(cli.calls[n]))
         => cli.pc = "raised"
    /\ (n >= 1 /\ cli.calls[n].exc = "none") => cli.pc = "returned"
    /\ cli.pc = "returned" => cli.calls[n].exc = "none"
    /\ cli.pc = "raised" => cli.raised = cli.calls[n] /\ cli.raised.exc # "none"

\* the fetch was called again after an error with code 100 (invalid parameter)
IgRetriedPermanentError ==
  /\ cli.client = "ig_get_retry"
  /\ Len(cli.calls) >= 2
  /\ cli.calls[1].code = 100


====
